---- MODULE Spec2Model ----
(***************************************************************************)
(* A model of the dkg.py client: the Merkle fingerprinting of statement    *)
(* lists (dkg/utils/merkle.py), the bounded-retry operation poller         *)
(* (dkg/utils/decorators.py, dkg/utils/node_request.py) and the read path  *)
(* of the client (KnowledgeAsset.get, Graph.get, ContentAsset.get).        *)
(*                                                                         *)
(* Python strings are sequences of character codes.  The hex digits are    *)
(* the codes 0..15, 'x' is CharX, statement text uses codes from StmtBase  *)
(* on.  A bytes value is the record [b |-> digits] of its hex digits, so   *)
(* that bytes.hex(), Web3.to_hex and Web3.to_bytes are conversions between *)
(* two kinds of value.  Keccak-256 is a collision-free function: the       *)
(* digest of a byte string is that byte string between the two digits      *)
(* DigestOpen and DigestClose.                                             *)
(***************************************************************************)
EXTENDS Integers, Sequences, FiniteSets, TLC

\* ------------------------------------------------------------------ bounds
MaxLen == 5
NumStatements == 2

\* ------------------------------------------------------- character codes
CharX == 16
DigestOpen == 14
DigestClose == 15
StmtBase == 20

VARIABLES
    mpc,          \* position of the fingerprinting caller
    callerList,   \* the statement list object the caller passed in
    sortArg,      \* hash_assertion_with_indexes(sort=...)
    sortLeaves,   \* MerkleTree(sort_leaves=...)
    sortPairs,    \* MerkleTree(sort_pairs=...)
    leafList,     \* the list returned by hash_assertion_with_indexes, which
                  \* MerkleTree keeps as self.leaves (the same list object)
    tree,         \* MerkleTree.tree: the levels, root level first
    proofLeaf,    \* the leaf given to proof() and verify()
    proofOut,     \* what proof() returned
    verifyOut     \* what verify() returned or raised

VARIABLES
    apc,          \* position of the caller of the Assertion module
    content,      \* the content it passes: [public, private], two datasets
    otherPrivate, \* another private dataset, for the same public one
    assertions,   \* what format_graph(content) returned or raised
    publicIds     \* what get_public_assertion_id returned or raised, for
                  \* content and for content with otherPrivate

VARIABLES
    ppc,          \* position of the caller fingerprinting two lists
    pairGiven,    \* the two statement lists as they were passed
    pairLists,    \* the two list objects
    pairSort,     \* hash_assertion_with_indexes(sort=...), for both
    pairRoots     \* the roots computed so far, in order

VARIABLES
    pollPc,       \* "idle", "polling", "returned" or "raised"
    pollOp,       \* the operation polled: [id, kind]
    attempts,     \* status requests made by this call of the wrapper
    delay,        \* _delay of the wrapper
    slept,        \* the durations of the sleeps made, in order
    statuses,     \* the status of each response, in order
    pollResult,   \* <<operation_result>> once returned, <<>> before
    pollError     \* the exception the wrapper raised, as a record

VARIABLES
    gpc,                \* position of the running get
    entry,              \* the entry point called
    stateArg,           \* the state argument of KnowledgeAsset.get
    visibility,         \* content_visibility, in upper case
    validateArg,        \* validate
    history,            \* registry: the asset's assertion ids, oldest first
    unfinalized,        \* registry: the unfinalized-state slot
    reads,              \* what get has read from the registry
    publicAssertionId,  \* public_assertion_id
    isStateFinalized,   \* is_state_finalized
    privateAssertionId, \* private_assertion_id
    publicAssertion,    \* public_assertion (assertion in Graph.get), once bound
    privateAssertion,   \* private_assertion, once bound
    submitted,          \* the operations submitted to the node, in order
    outcome,            \* "none", "return" or the exception raised
    errorInfo,          \* the values the raised exception carries
    result              \* the dict returned

VARIABLES
    upc,          \* position of the caller of format_ual and parse_ual
    ualArgs,      \* [blockchain, contract_address, token_id] as passed
    ualText,      \* what format_ual returned
    ualParsed     \* what parse_ual returned or raised

VARIABLES
    snapshots     \* the states the registry has been in since the running
                  \* get was entered, while it resolves its selector

VARIABLES
    wpc,                  \* position of the running create or update
    writeOp,              \* "create" or "update"
    assertionsArg,        \* assertions: what format_content returned
    tokenAmount,          \* token_amount
    allowance,            \* chain: the allowance of ServiceAgreementV1
    currentAllowance,     \* current_allowance
    isAllowanceIncreased, \* is_allowance_increased
    sentTxs,              \* the allowance transactions sent, in order
    nodeOps,              \* the operations submitted to the node, in order
    writeResult,          \* the keys of result["operation"]
    writeOutcome          \* "none", "return" or the exception raised

VARIABLES
    firstResolved \* what the first of two gets of one caller resolved its
                  \* selector to, once the second is under way

VARIABLES
    frames,       \* the calls of call_function in progress, outermost first
    contractArg,  \* the contract argument: "name" (a str) or "dict"
    executed,     \* executions of the requested contract function
    probes,       \* executions of the contract's status function
    updates,      \* re-resolutions of the contract through the Hub
    providerOut   \* "none", "returned" or "raised"

assembleVars == <<apc, content, otherPrivate, assertions, publicIds>>

pairVars == <<ppc, pairGiven, pairLists, pairSort, pairRoots>>

treeVars ==
    <<mpc, callerList, sortArg, sortLeaves, sortPairs, leafList, tree,
      proofLeaf, proofOut, verifyOut>>

merkleVars == <<treeVars, assembleVars, pairVars>>

pollVars ==
    <<pollPc, pollOp, attempts, delay, slept, statuses, pollResult, pollError>>

getVars ==
    <<gpc, entry, stateArg, visibility, validateArg, history, unfinalized,
      reads, publicAssertionId, isStateFinalized, privateAssertionId,
      publicAssertion, privateAssertion, submitted, outcome, errorInfo, result>>

retrieved == <<publicAssertion, privateAssertion>>

ualVars == <<upc, ualArgs, ualText, ualParsed>>

writeVars ==
    <<wpc, writeOp, assertionsArg, tokenAmount, allowance, currentAllowance,
      isAllowanceIncreased, sentTxs, nodeOps, writeResult, writeOutcome>>

providerVars ==
    <<frames, contractArg, executed, probes, updates, providerOut>>

clientVars == <<ualVars, snapshots, writeVars, firstResolved, providerVars>>

vars == <<merkleVars, pollVars, getVars, clientVars>>

\* no caller of format_ual
UalIdle ==
    /\ upc = "off"
    /\ ualArgs = [blockchain |-> <<>>, contract_address |-> <<>>, token_id |-> 0]
    /\ ualText = <<>>
    /\ ualParsed = <<>>

\* no create and no update
WriteIdle ==
    /\ wpc = "off"
    /\ writeOp = "none"
    /\ assertionsArg = [public |-> <<>>, private |-> <<>>]
    /\ tokenAmount = 0
    /\ allowance = 0
    /\ currentAllowance = 0
    /\ isAllowanceIncreased = FALSE
    /\ sentTxs = <<>>
    /\ nodeOps = <<>>
    /\ writeResult = {}
    /\ writeOutcome = "none"

\* no call of call_function
ProviderIdle ==
    /\ frames = <<>>
    /\ contractArg = "none"
    /\ executed = 0
    /\ probes = 0
    /\ updates = 0
    /\ providerOut = "none"

\* no caller of the second get
RepeatIdle == firstResolved = <<>>

ClientIdle ==
    UalIdle /\ snapshots = {} /\ WriteIdle /\ RepeatIdle /\ ProviderIdle

\* no caller of the Assertion module
AssembleIdle ==
    /\ apc = "off"
    /\ content = [public |-> <<>>, private |-> <<>>]
    /\ otherPrivate = <<>>
    /\ assertions = [public |-> <<>>, private |-> <<>>, error |-> "none"]
    /\ publicIds = <<>>

\* no caller fingerprinting two lists
PairIdle ==
    /\ ppc = "off"
    /\ pairGiven = <<>>
    /\ pairLists = <<>>
    /\ pairSort = FALSE
    /\ pairRoots = <<>>

\* no caller of hash_assertion_with_indexes and MerkleTree
TreeIdle ==
    /\ mpc = "off"
    /\ callerList = <<>>
    /\ sortArg = FALSE
    /\ sortLeaves = FALSE
    /\ sortPairs = FALSE
    /\ leafList = <<>>
    /\ tree = <<>>
    /\ proofLeaf = <<>>
    /\ proofOut = <<>>
    /\ verifyOut = "none"

\* no fingerprinting caller
MerkleIdle ==
    /\ AssembleIdle
    /\ PairIdle
    /\ mpc = "off"
    /\ callerList = <<>>
    /\ sortArg = FALSE
    /\ sortLeaves = FALSE
    /\ sortPairs = FALSE
    /\ leafList = <<>>
    /\ tree = <<>>
    /\ proofLeaf = <<>>
    /\ proofOut = <<>>
    /\ verifyOut = "none"

\* ------------------------------------------------------------- strings
Prefix0x == <<0, CharX>>

HasPrefix0x(s) == Len(s) >= 2 /\ s[1] = 0 /\ s[2] = CharX

\* str < str of Python: by code point, a proper prefix first
RECURSIVE StrLess(_, _)
StrLess(a, b) ==
    IF a = <<>> THEN b # <<>>
    ELSE IF b = <<>> THEN FALSE
    ELSE IF Head(a) = Head(b) THEN StrLess(Tail(a), Tail(b))
    ELSE Head(a) < Head(b)

\* "".join(parts)
RECURSIVE Join(_)
Join(parts) ==
    IF parts = <<>> THEN <<>> ELSE Head(parts) \o Join(Tail(parts))

\* sorted([h1, h2])
SortedPair(h1, h2) == IF StrLess(h2, h1) THEN <<h2, h1>> ELSE <<h1, h2>>

RECURSIVE InsertSorted(_, _)
InsertSorted(x, s) ==
    IF s = <<>> THEN <<x>>
    ELSE IF StrLess(x, Head(s)) THEN <<x>> \o s
    ELSE <<Head(s)>> \o InsertSorted(x, Tail(s))

\* list.sort() on a list of strings
RECURSIVE ListSort(_)
ListSort(s) ==
    IF s = <<>> THEN <<>> ELSE InsertSorted(Head(s), ListSort(Tail(s)))

\* ------------------------------------------------------ bytes and hashes
\* Web3.to_bytes(hexstr=h), and the decoding of a "bytes" ABI argument
\* given as a hex string: an optional 0x prefix is dropped
HexToBytes(h) ==
    [b |-> IF HasPrefix0x(h) THEN SubSeq(h, 3, Len(h)) ELSE h]

\* bytes(...).hex(): the digits, no prefix
BytesHex(v) == v.b

\* Web3.to_hex(bytes): the digits behind 0x
ToHex(v) == Prefix0x \o v.b

\* keccak256 of a byte string
Keccak(v) == [b |-> <<DigestOpen>> \o v.b \o <<DigestClose>>]

\* Web3.solidity_keccak(["string"], [leaf]): the hash of the text's bytes
KeccakString(leaf) == Keccak([b |-> leaf])

\* uint256 of encode_packed: fixed width
EncodeUint(i) == <<i>>

solidity_keccak256(hash) == BytesHex(Keccak(HexToBytes(Prefix0x \o hash)))

\* the list hash_assertion_with_indexes returns for the (already sorted,
\* when sort is set) list it hashes
HashIndexed(leaves) ==
    [i \in 1..Len(leaves) |->
        solidity_keccak256(
            BytesHex(KeccakString(leaves[i])) \o EncodeUint(i - 1))]

\* leaves after the in-place sort of hash_assertion_with_indexes
SortedInPlace(leaves, sort) == IF sort THEN ListSort(leaves) ELSE leaves

\* hash_assertion_with_indexes that sorts whatever its sort argument is
hash_assertion_always_sorted(leaves, sort) == HashIndexed(ListSort(leaves))

hash_assertion_with_indexes(leaves, sort) ==
    HashIndexed(SortedInPlace(leaves, sort))

\* ------------------------------------------------------------ MerkleTree
\* trees whose odd trailing node is dropped instead of carried up
RECURSIVE NextLevelDropTrailing(_, _)
NextLevelDropTrailing(level, sort_pairs) ==
    IF Len(level) < 2 THEN <<>>
    ELSE <<solidity_keccak256(
              Join(IF ~sort_pairs THEN <<level[1], level[2]>>
                   ELSE SortedPair(level[1], level[2])))>>
         \o NextLevelDropTrailing(SubSeq(level, 3, Len(level)), sort_pairs)

\* one pass of the for loop of build_tree over zip(level[::2], level[1::2] + [None])
RECURSIVE NextLevel(_, _)
NextLevel(level, sort_pairs) ==
    IF level = <<>> THEN <<>>
    ELSE IF Len(level) = 1 THEN <<level[1]>>
    ELSE <<solidity_keccak256(
              Join(IF ~sort_pairs THEN <<level[1], level[2]>>
                   ELSE SortedPair(level[1], level[2])))>>
         \o NextLevel(SubSeq(level, 3, Len(level)), sort_pairs)

\* the while loop of build_tree: the levels, leaves first
RECURSIVE LevelsUp(_, _)
LevelsUp(levels, sort_pairs) ==
    IF Len(levels[Len(levels)]) > 1
    THEN LevelsUp(Append(levels, NextLevel(levels[Len(levels)], sort_pairs)),
                  sort_pairs)
    ELSE levels

Reverse(s) == [i \in 1..Len(s) |-> s[Len(s) + 1 - i]]

build_tree(leaves, sort_pairs) == Reverse(LevelsUp(<<leaves>>, sort_pairs))

\* MerkleTree.root
Root(t) == t[1][1]

\* MerkleTree._process_leaves: the list is sorted in place
process_leaves(leaves, sort_leaves) ==
    IF sort_leaves THEN ListSort(leaves) ELSE leaves

\* the index proof() finds for a leaf when none is given: 0-based, -1 for None
RECURSIVE FindFrom(_, _, _)
FindFrom(leaves, leaf, i) ==
    IF i > Len(leaves) THEN -1
    ELSE IF leaves[i] = leaf THEN i - 1
    ELSE FindFrom(leaves, leaf, i + 1)

IndexOf(leaves, leaf) == FindFrom(leaves, leaf, 1)

\* the for loop of proof() over self.tree[:0:-1], from level k (leaves: k =
\* Len(t)) up to level 2, index being 0-based
RECURSIVE ProofLoop(_, _, _)
ProofLoop(t, k, index) ==
    IF k < 2 THEN <<>>
    ELSE LET level == IF Len(t[k]) % 2 = 1
                      THEN Append(t[k], t[k][Len(t[k])])
                      ELSE t[k]
             sibling == IF index % 2 = 1 THEN level[index] ELSE level[index + 2]
         IN  <<sibling>> \o ProofLoop(t, k - 1, index \div 2)

\* MerkleTree.proof(leaf) for a leaf of the tree
ProofOf(t, leaves, leaf) == ProofLoop(t, Len(t), IndexOf(leaves, leaf))

\* verify() in sorted-pair mode without its "if hash == p: continue"
RECURSIVE VerifySortedLoopNoSkip(_, _)
VerifySortedLoopNoSkip(hash, proof) ==
    IF proof = <<>> THEN hash
    ELSE VerifySortedLoopNoSkip(
             solidity_keccak256(Join(SortedPair(hash, Head(proof)))),
             Tail(proof))

\* the for loop of verify() in sorted-pair mode
RECURSIVE VerifySortedLoop(_, _)
VerifySortedLoop(hash, proof) ==
    IF proof = <<>> THEN hash
    ELSE IF hash = Head(proof) THEN VerifySortedLoop(hash, Tail(proof))
    ELSE VerifySortedLoop(
             solidity_keccak256(Join(SortedPair(hash, Head(proof)))),
             Tail(proof))

\* the for loop of verify() in positional mode: index is not halved when an
\* entry equal to the running hash is skipped
RECURSIVE VerifyPositionalLoop(_, _, _)
VerifyPositionalLoop(hash, proof, index) ==
    IF proof = <<>> THEN hash
    ELSE IF hash = Head(proof)
         THEN VerifyPositionalLoop(hash, Tail(proof), index)
    ELSE VerifyPositionalLoop(
             solidity_keccak256(
                 Join(IF index % 2 = 0 THEN <<hash, Head(proof)>>
                      ELSE <<Head(proof), hash>>)),
             Tail(proof), index \div 2)

\* MerkleTree.verify(proof, leaf): "true", "false", or the error raised.
\* In positional mode index is bound only by the search loop, so a leaf the
\* loop does not find leaves it unbound at the "index is None" test.
Verify(t, leaves, sort_pairs, proof, leaf) ==
    IF sort_pairs
    THEN IF VerifySortedLoop(leaf, proof) = Root(t) THEN "true" ELSE "false"
    ELSE IF IndexOf(leaves, leaf) = -1 THEN "UnboundLocalError"
    ELSE IF VerifyPositionalLoop(leaf, proof, IndexOf(leaves, leaf)) = Root(t)
         THEN "true" ELSE "false"

\* =================================================== the operation poller
\* @retry(catch=OperationNotFinished, max_retries=5, base_delay=1, backoff=2)
MaxRetries == 5
BaseDelay == 1
Backoff == 2

\* the values of the members of OperationStatus that are strings; the
\* members LOCAL_STORE, PUBLISH, GET and QUERY have enumeration classes as
\* values, which no status string equals
OperationStatusValues ==
    {"PENDING", "FAILED", "COMPLETED", "FIND_NODES_START", "FIND_NODES_END",
     "FIND_NODES_LOCAL_START", "FIND_NODES_LOCAL_END",
     "FIND_NODES_OPEN_CONNECTION_START", "FIND_NODES_OPEN_CONNECTION_END",
     "FIND_NODES_CREATE_STREAM_START", "FIND_NODES_CREATE_STREAM_END",
     "FIND_NODES_SEND_MESSAGE_START", "FIND_NODES_SEND_MESSAGE_END",
     "DIAL_PROTOCOL_START", "DIAL_PROTOCOL_END"}

\* validate_operation_status with the ValueError of OperationStatus(...) left
\* to propagate as a failure
validate_operation_status_strict(operation_result) ==
    IF operation_result.status \notin OperationStatusValues
    THEN "OperationFailed"
    ELSE IF operation_result.status = "COMPLETED" THEN "return"
    ELSE IF operation_result.status = "FAILED" THEN "OperationFailed"
    ELSE "OperationNotFinished"

\* validate_operation_status(operation_result): "return" or the exception
validate_operation_status(operation_result) ==
    IF operation_result.status \notin OperationStatusValues
    THEN "OperationNotFinished"
    ELSE IF operation_result.status = "COMPLETED" THEN "return"
    ELSE IF operation_result.status = "FAILED" THEN "OperationFailed"
    ELSE "OperationNotFinished"

NoError == [type |-> "none", errorType |-> "", errorMessage |-> ""]

\* OperationFailed(f"Operation failed! {errorType}: {errorMessage}.")
OperationFailedError(operation_result) ==
    [type |-> "OperationFailed",
     errorType |-> operation_result.data.errorType,
     errorMessage |-> operation_result.data.errorMessage]

\* NodeRequestError(f"Failed executing {func.__name__} after {max_retries} retries.")
NodeRequestErrorRaised ==
    [type |-> "NodeRequestError", errorType |-> "", errorMessage |-> ""]

PollIdle ==
    /\ pollPc = "idle"
    /\ pollOp = [id |-> 0, kind |-> "none"]
    /\ attempts = 0
    /\ delay = 0
    /\ slept = <<>>
    /\ statuses = <<>>
    /\ pollResult = <<>>
    /\ pollError = NoError

\* entry of wrapper(): _delay = base_delay
PollStart(operation_id, operation) ==
    /\ pollPc' = "polling"
    /\ pollOp' = [id |-> operation_id, kind |-> operation]
    /\ attempts' = 0
    /\ delay' = BaseDelay
    /\ slept' = <<>>
    /\ statuses' = <<>>
    /\ pollResult' = <<>>
    /\ pollError' = NoError

\* a loop of one iteration fewer, and one of one iteration more
IterationsLeftOneFewer(n) == MaxRetries - 1 - n
IterationsLeftOneMore(n) == MaxRetries + 1 - n

\* the iterations range(max_retries) leaves after n of them
IterationsLeft(n) == MaxRetries - n

\* a wrapper that does not sleep after the last iteration of the loop
CaughtNotFinishedNoLastSleep ==
    /\ delay' = delay * Backoff
    /\ pollResult' = pollResult
    /\ IF IterationsLeft(attempts + 1) > 0
       THEN pollPc' = "polling" /\ pollError' = pollError
                                /\ slept' = Append(slept, delay)
       ELSE pollPc' = "raised" /\ pollError' = NodeRequestErrorRaised
                               /\ slept' = slept

\* what follows an OperationNotFinished caught in the loop:
\* time.sleep(_delay); _delay *= backoff; and, when that was the last
\* iteration, the raise after the loop
CaughtNotFinished ==
    /\ slept' = Append(slept, delay)
    /\ delay' = delay * Backoff
    /\ pollResult' = pollResult
    /\ IF IterationsLeft(attempts + 1) > 0
       THEN pollPc' = "polling" /\ pollError' = pollError
       ELSE pollPc' = "raised" /\ pollError' = NodeRequestErrorRaised

\* a wrapper that catches every exception
UncaughtAsCaught(operation_result) == CaughtNotFinished

\* what follows an exception that is not caught: it leaves the wrapper
Uncaught(operation_result) ==
    /\ pollPc' = "raised"
    /\ pollError' = OperationFailedError(operation_result)
    /\ UNCHANGED <<delay, slept, pollResult>>

\* one iteration of the loop of wrapper(): func() requests the status
\* (operation_result is the node's response) and validates it
PollStep(operation_result) ==
    /\ pollPc = "polling"
    /\ attempts' = attempts + 1
    /\ statuses' = Append(statuses, operation_result.status)
    /\ pollOp' = pollOp
    /\ LET v == validate_operation_status(operation_result)
       IN  IF v = "return"
           THEN /\ pollPc' = "returned"
                /\ pollResult' = <<operation_result>>
                /\ UNCHANGED <<delay, slept, pollError>>
           ELSE IF v = "OperationNotFinished"
           THEN CaughtNotFinished
           ELSE Uncaught(operation_result)

\* ====================================================== the read path
MaxHistory == 2

PredicateChar == 30
QuoteChar == 31
UpperOffset == 30

None == <<>>
Some(x) == <<x>>

\* ------------------------------------------------ published assertions
\* MerkleTree(hash_assertion_with_indexes(assertion), sort_pairs=True).root
Fingerprint(assertion) ==
    Root(build_tree(hash_assertion_with_indexes(assertion, TRUE), TRUE))

\* the bytes32 the registry holds for a published assertion: create passes
\* Web3.to_bytes(hexstr=public_assertion_id) to the contract
RegistryEntry(assertion) == HexToBytes(Fingerprint(assertion))

\* the statement format_content adds to the public graph: the predicate and
\* the private assertion id as a quoted literal
LinkStatement(private_assertion_id) ==
    <<PredicateChar, QuoteChar>> \o private_assertion_id \o <<QuoteChar>>

PublishedPrivate == <<<<StmtBase + 2>>>>
TamperedPrivate == <<<<StmtBase + 1>>, <<StmtBase + 2>>>>
PlainPublic == <<<<StmtBase + 1>>>>
LinkedPublic ==
    <<<<StmtBase + 1>>, LinkStatement(Fingerprint(PublishedPrivate))>>

PublishedAssertions == {PlainPublic, LinkedPublic}

RegistryEntries == {RegistryEntry(a) : a \in PublishedAssertions}

\* bytes32(0) and web3.constants.HASH_ZERO
ZeroBytes32 == [b |-> <<0>>]
HASH_ZERO == Prefix0x \o <<0>>

\* a fingerprint no state of the asset has
UnknownEntry == RegistryEntry(<<<<StmtBase + 2>>, <<StmtBase + 2>>>>)

\* -------------------------------------------------------- the selector
\* the state argument: a str given by its text (letters) or by its
\* characters (hex strings), an int, or None
TextSel(t) == [type |-> "text", text |-> t, num |-> 0, chars |-> <<>>]
CharsSel(c) == [type |-> "chars", text |-> "", num |-> 0, chars |-> c]
IntSel(n) == [type |-> "int", text |-> "", num |-> n, chars |-> <<>>]
NoneSel == [type |-> "none", text |-> "", num |-> 0, chars |-> <<>>]

IsStr(sel) == sel.type \in {"text", "chars"}

\* str.upper() on the texts of the model
UpperText(t) ==
    CASE t = "latest" -> "LATEST"
      [] t = "latest_finalized" -> "LATEST_FINALIZED"
      [] t = "bogus" -> "BOGUS"
      [] OTHER -> t

\* str.upper() and str.lower() on characters: a..f and x have upper forms
UpperChars(s) ==
    [i \in 1..Len(s) |-> IF s[i] \in 10..16 THEN s[i] + UpperOffset ELSE s[i]]
LowerChars(s) ==
    [i \in 1..Len(s) |->
        IF s[i] \in (10 + UpperOffset)..(16 + UpperOffset)
        THEN s[i] - UpperOffset ELSE s[i]]

\* where the digest opened at s[1] closes; 0 when it does not
RECURSIVE ClosesAt(_, _, _)
ClosesAt(s, i, depth) ==
    IF i > Len(s) THEN 0
    ELSE LET d == depth + (IF s[i] = DigestOpen THEN 1
                           ELSE IF s[i] = DigestClose THEN -1 ELSE 0)
         IN  IF d = 0 THEN i ELSE ClosesAt(s, i + 1, d)

\* [a-fA-F0-9]{64}: the hex digits, in either case, of one 32-byte value,
\* which is a digest or zero
Is64HexDigits(body) ==
    LET low == LowerChars(body)
    IN  \/ low = <<0>>
        \/ /\ low # <<>>
           /\ low[1] = DigestOpen
           /\ ClosesAt(low, 1, 0) = Len(low)

\* re.match(r"^0x[a-fA-F0-9]{64}$", state)
MatchesFingerprint(sel) ==
    /\ sel.type = "chars"
    /\ HasPrefix0x(sel.chars)
    /\ Is64HexDigits(SubSeq(sel.chars, 3, Len(sel.chars)))

\* state.upper() if state is a str that is no fingerprint, else state
NormalizedState(sel) ==
    IF IsStr(sel) /\ ~MatchesFingerprint(sel)
    THEN IF sel.type = "text" THEN TextSel(UpperText(sel.text))
         ELSE CharsSel(UpperChars(sel.chars))
    ELSE sel

\* KnowledgeAssetEnumStates: members equal to their upper-case names
LATEST == "LATEST"
LATEST_FINALIZED == "LATEST_FINALIZED"

\* x in list
InList(x, list) == \E i \in 1..Len(list) : list[i] = x

\* [Web3.to_hex(assertion_id) for assertion_id in self._get_assertion_ids(token_id)]
AssertionIdsHex(ids) == [i \in 1..Len(ids) |-> ToHex(ids[i])]

\* ------------------------------------------------------- node payloads
\* operation_result["data"]
Data(error_type, error_message, a, p, q) ==
    [errorType |-> error_type, errorMessage |-> error_message,
     assertion |-> a, privateAssertion |-> p, nquads |-> q]

EmptyData == Data("", "", None, None, None)
FailedData == Data("RemoteError", "remote message", None, None, None)

\* what a node may answer a get with
GetData ==
    {Data("", "", a, p, None) :
        a \in {None, Some(PlainPublic), Some(LinkedPublic)},
        p \in {None, Some(PublishedPrivate)}}

\* what a node may answer the private query with
QueryData ==
    {Data("", "", None, None, Some(q)) :
        q \in {PublishedPrivate, TamperedPrivate}}

\* the response to the n-th status request of an operation
Response(status, n, data) ==
    [status |-> status, request |-> n,
     data |-> IF status = "FAILED" THEN FailedData ELSE data]

\* ------------------------------------------------------ KnowledgeAsset.get
NoReads == [unfinalized |-> None, latest |-> None, ids |-> None]

NoInfo == [state |-> <<>>, root |-> <<>>]

EmptyResult ==
    [publicKey |-> "none", publicAssertion |-> None, publicAssertionId |-> <<>>,
     privateKey |-> "none", privateAssertion |-> None, privateAssertionId |-> <<>>,
     operations |-> {}]

GetIdle ==
    /\ gpc = "off"
    /\ entry = "none"
    /\ stateArg = NoneSel
    /\ visibility = "ALL"
    /\ validateArg = FALSE
    /\ history = <<>>
    /\ unfinalized = ZeroBytes32
    /\ reads = NoReads
    /\ publicAssertionId = <<>>
    /\ isStateFinalized = FALSE
    /\ privateAssertionId = <<>>
    /\ publicAssertion = None
    /\ privateAssertion = None
    /\ submitted = <<>>
    /\ outcome = "none"
    /\ errorInfo = NoInfo
    /\ result = EmptyResult

\* ------------------------------------------------------- statement lists
StmtChars == (StmtBase + 1)..(StmtBase + NumStatements)

\* one-character statements
Statements == {<<c>> : c \in StmtChars}

SeqsUpTo(S, n) == UNION {[1..k -> S] : k \in 1..n}

StatementLists == SeqsUpTo(Statements, MaxLen)

\* ------------------------------------------- the fingerprinting caller
MerkleInit ==
    /\ AssembleIdle
    /\ PairIdle
    /\ mpc = "start"
    /\ callerList \in StatementLists
    /\ sortArg \in BOOLEAN
    /\ sortLeaves \in BOOLEAN
    /\ sortPairs \in BOOLEAN
    /\ leafList = <<>>
    /\ tree = <<>>
    /\ proofLeaf = <<>>
    /\ proofOut = <<>>
    /\ verifyOut = "none"

\* leaves = hash_assertion_with_indexes(L, sort=sortArg)
HashAssertion ==
    /\ mpc = "start"
    /\ leafList' = hash_assertion_with_indexes(callerList, sortArg)
    /\ callerList' = SortedInPlace(callerList, sortArg)
    /\ mpc' = "hashed"
    /\ UNCHANGED <<sortArg, sortLeaves, sortPairs, tree, proofLeaf, proofOut,
                   verifyOut>>
    /\ UNCHANGED <<assembleVars, pairVars, pollVars, getVars, clientVars>>

\* T = MerkleTree(leaves, sort_leaves=sortLeaves, sort_pairs=sortPairs)
NewMerkleTree ==
    /\ mpc = "hashed"
    /\ leafList' = process_leaves(leafList, sortLeaves)
    /\ tree' = build_tree(process_leaves(leafList, sortLeaves), sortPairs)
    /\ mpc' = "built"
    /\ UNCHANGED <<callerList, sortArg, sortLeaves, sortPairs, proofLeaf,
                   proofOut, verifyOut>>
    /\ UNCHANGED <<assembleVars, pairVars, pollVars, getVars, clientVars>>

\* p = T.proof(h) for a leaf h of T
CallProof ==
    /\ mpc = "built"
    /\ \E i \in 1..Len(leafList) :
        /\ proofLeaf' = leafList[i]
        /\ proofOut' = ProofOf(tree, leafList, leafList[i])
    /\ mpc' = "proved"
    /\ UNCHANGED <<callerList, sortArg, sortLeaves, sortPairs, leafList, tree,
                   verifyOut>>
    /\ UNCHANGED <<assembleVars, pairVars, pollVars, getVars, clientVars>>

\* MerkleTree.proof(leaf, index): index is None or Some(i); the search for
\* the leaf, and the raise, happen only when no index is given
proof(t, leaves, leaf, index) ==
    LET found == IF index = None THEN IndexOf(leaves, leaf) ELSE index[1]
    IN  IF index = None /\ found = -1
        THEN [raised |-> "LeafNotInTree", proof |-> <<>>]
        ELSE [raised |-> "none", proof |-> ProofLoop(t, Len(t), found)]

\* a leaf of no tree built here: the hash of a statement no list holds
AbsentLeaf == HashIndexed(<<<<StmtBase>>>>)[1]

\* T.proof(h) and T.proof(h, i) for a leaf h that is not in T
CallProofAbsent ==
    /\ mpc = "built"
    /\ \E index \in {None} \cup {Some(i) : i \in 0..(Len(leafList) - 1)} :
        LET out == proof(tree, leafList, AbsentLeaf, index)
        IN  /\ proofLeaf' = AbsentLeaf
            /\ proofOut' = out.proof
            /\ mpc' = IF out.raised = "LeafNotInTree" THEN "proof_raised"
                      ELSE "absent_proved"
    /\ UNCHANGED <<callerList, sortArg, sortLeaves, sortPairs, leafList, tree,
                   verifyOut>>
    /\ UNCHANGED <<assembleVars, pairVars, pollVars, getVars, clientVars>>

\* the hashes of the tree that are not leaves: the interior nodes, the root
\* included
NonLeafNodes(t, leaves) ==
    UNION {{t[k][i] : i \in 1..Len(t[k])} : k \in 1..Len(t)}
        \ {leaves[i] : i \in 1..Len(leaves)}

\* the tails of a proof: what is left of it from some level up
ProofTails(p) == {SubSeq(p, k, Len(p)) : k \in 1..(Len(p) + 1)}

\* T.verify(p, x) for an x that is no leaf of T (a leaf of no tree, or an
\* interior node of T) and a p that is a tail of the first leaf's proof
CallVerifyNonLeaf ==
    /\ mpc = "built"
    /\ \E x \in NonLeafNodes(tree, leafList) \cup {AbsentLeaf} :
       \E p \in ProofTails(ProofOf(tree, leafList, leafList[1])) :
        /\ proofLeaf' = x
        /\ proofOut' = p
        /\ verifyOut' = Verify(tree, leafList, sortPairs, p, x)
    /\ mpc' = "nonleaf_verified"
    /\ UNCHANGED <<callerList, sortArg, sortLeaves, sortPairs, leafList, tree>>
    /\ UNCHANGED <<assembleVars, pairVars, pollVars, getVars, clientVars>>

\* T.verify(p, h)
CallVerify ==
    /\ mpc = "proved"
    /\ verifyOut' = Verify(tree, leafList, sortPairs, proofOut, proofLeaf)
    /\ mpc' = "verified"
    /\ UNCHANGED <<callerList, sortArg, sortLeaves, sortPairs, leafList, tree,
                   proofLeaf, proofOut>>
    /\ UNCHANGED <<assembleVars, pairVars, pollVars, getVars, clientVars>>

MerkleNext ==
    \/ HashAssertion
    \/ NewMerkleTree
    \/ CallProof
    \/ CallProofAbsent
    \/ CallVerifyNonLeaf
    \/ CallVerify

MerkleSpecInit == MerkleInit /\ PollIdle /\ GetIdle /\ ClientIdle

MerkleSpec == MerkleSpecInit /\ [][MerkleNext]_vars

\* the values the message of the raised exception is formatted from:
\* f"Operation failed! {errorType}: {errorMessage}." and
\* f"Failed executing {func.__name__} after {max_retries} retries."
ErrorMessageParts(error) ==
    IF error.type = "OperationFailed"
    THEN {error.errorType, error.errorMessage}
    ELSE IF error.type = "NodeRequestError"
    THEN {"get_operation_result", ToString(MaxRetries)}
    ELSE {}

\* ------------------------------------- get_operation_result on its own
\* the statuses a node reports: terminal ones, a member of OperationStatus,
\* a substatus of one kind of operation, and one no enumeration knows
NodeStatuses == {"COMPLETED", "FAILED", "PENDING", "PUBLISH_START", "FUTURE_STATUS"}

OperationKinds == {"get", "query", "publish"}

OperationIds == {1, 2}

PollInit ==
    /\ pollPc = "polling"
    /\ pollOp \in [id : OperationIds, kind : OperationKinds]
    /\ attempts = 0
    /\ delay = BaseDelay
    /\ slept = <<>>
    /\ statuses = <<>>
    /\ pollResult = <<>>
    /\ pollError = NoError

\* get_operation_result(operation_id, operation): one status request
PollAttempt ==
    /\ \E status \in NodeStatuses :
          PollStep(Response(status, attempts + 1, EmptyData))
    /\ UNCHANGED <<merkleVars, getVars, clientVars>>

PollNext == PollAttempt

PollSpecInit == PollInit /\ MerkleIdle /\ GetIdle /\ ClientIdle

PollSpec == PollSpecInit /\ [][PollNext]_vars

\* the node answers every status request and every sleep ends
FairPollSpec == PollSpec /\ WF_vars(PollAttempt)

NonTerminal(status) == status \notin {"COMPLETED", "FAILED"}

\* the registry's read functions (contract calls)
get_unfinalized_state == unfinalized
get_latest_assertion_id == history[Len(history)]
get_assertion_ids == history

\* raise exc(...)
Raise(exc, info) ==
    /\ gpc' = "done"
    /\ outcome' = exc
    /\ errorInfo' = info

\* the match statement has bound public_assertion_id and is_state_finalized
Resolved(public_assertion_id, is_state_finalized) ==
    /\ publicAssertionId' = public_assertion_id
    /\ isStateFinalized' = is_state_finalized
    /\ gpc' = "submit_get"
    /\ UNCHANGED <<outcome, errorInfo>>

\* the int case with the finality test off by one
ResolveIndexLastOnly(state) ==
    LET assertion_ids == AssertionIdsHex(get_assertion_ids)
        states_number == Len(assertion_ids)
    IN  /\ reads' = [reads EXCEPT !.ids = Some(assertion_ids)]
        /\ IF 0 <= state /\ state < states_number
           THEN Resolved(assertion_ids[state + 1], state = states_number)
           ELSE /\ Raise("InvalidStateOption", NoInfo)
                /\ UNCHANGED <<publicAssertionId, isStateFinalized>>

\* the int case with an index out of range clamped to the last state
ResolveIndexClamped(state) ==
    LET assertion_ids == AssertionIdsHex(get_assertion_ids)
        states_number == Len(assertion_ids)
    IN  /\ reads' = [reads EXCEPT !.ids = Some(assertion_ids)]
        /\ IF 0 <= state /\ state < states_number
           THEN Resolved(assertion_ids[state + 1], state = states_number - 1)
           ELSE Resolved(assertion_ids[states_number], TRUE)

\* the case of an int state
ResolveIndex(state) ==
    LET assertion_ids == AssertionIdsHex(get_assertion_ids)
        states_number == Len(assertion_ids)
    IN  /\ reads' = [reads EXCEPT !.ids = Some(assertion_ids)]
        /\ IF 0 <= state /\ state < states_number
           THEN Resolved(assertion_ids[state + 1], state = states_number - 1)
           ELSE /\ Raise("InvalidStateOption", NoInfo)
                /\ UNCHANGED <<publicAssertionId, isStateFinalized>>

\* the fingerprint case with finality tested against the first state
ResolveFingerprintFirst(state) ==
    LET assertion_ids == AssertionIdsHex(get_assertion_ids)
    IN  /\ reads' = [reads EXCEPT !.ids = Some(assertion_ids)]
        /\ IF InList(state, assertion_ids)
           THEN Resolved(state, state = assertion_ids[1])
           ELSE /\ Raise("InvalidStateOption", NoInfo)
                /\ UNCHANGED <<publicAssertionId, isStateFinalized>>

\* the case of a str state that is a fingerprint
ResolveFingerprint(state) ==
    LET assertion_ids == AssertionIdsHex(get_assertion_ids)
    IN  /\ reads' = [reads EXCEPT !.ids = Some(assertion_ids)]
        /\ IF InList(state, assertion_ids)
           THEN Resolved(state, state = assertion_ids[Len(assertion_ids)])
           ELSE /\ Raise("InvalidStateOption", NoInfo)
                /\ UNCHANGED <<publicAssertionId, isStateFinalized>>

\* handle_latest_state without the comparison with HASH_ZERO
ResolveLatestNoZeroTest ==
    LET unfinalized_state == ToHex(get_unfinalized_state)
    IN  /\ reads' = [reads EXCEPT !.unfinalized = Some(unfinalized_state)]
        /\ Resolved(unfinalized_state, FALSE)

\* handle_latest_state up to its return or its call of
\* handle_latest_finalized_state
ResolveLatest ==
    LET unfinalized_state == ToHex(get_unfinalized_state)
    IN  /\ reads' = [reads EXCEPT !.unfinalized = Some(unfinalized_state)]
        /\ IF unfinalized_state # <<>> /\ unfinalized_state # HASH_ZERO
           THEN Resolved(unfinalized_state, FALSE)
           ELSE /\ gpc' = "latest_finalized"
                /\ UNCHANGED <<publicAssertionId, isStateFinalized, outcome,
                               errorInfo>>

\* get from its entry to the first registry read of the match statement
ResolveState ==
    /\ gpc = "resolve"
    /\ LET state == NormalizedState(stateArg)
       IN  IF state.type = "text" /\ state.text = LATEST
           THEN ResolveLatest
           ELSE IF state.type = "text" /\ state.text = LATEST_FINALIZED
           THEN /\ gpc' = "latest_finalized"
                /\ UNCHANGED <<reads, publicAssertionId, isStateFinalized,
                               outcome, errorInfo>>
           ELSE IF state.type = "int"
           THEN ResolveIndex(state.num)
           ELSE IF IsStr(state) /\ MatchesFingerprint(state)
           THEN ResolveFingerprint(state.chars)
           ELSE /\ Raise("InvalidStateOption", NoInfo)
                /\ UNCHANGED <<reads, publicAssertionId, isStateFinalized>>
    /\ UNCHANGED <<entry, stateArg, visibility, validateArg, history,
                   unfinalized, privateAssertionId, submitted, result>>
    /\ UNCHANGED <<merkleVars, pollVars, clientVars>>
    /\ UNCHANGED retrieved

\* handle_latest_finalized_state with the flag taken from a second read of
\* the unfinalized slot
HandleLatestFinalizedRereads ==
    /\ gpc = "latest_finalized"
    /\ LET latest == ToHex(get_latest_assertion_id)
       IN  /\ reads' = [reads EXCEPT !.latest = Some(latest)]
           /\ Resolved(latest, get_unfinalized_state = ZeroBytes32)
    /\ UNCHANGED <<entry, stateArg, visibility, validateArg, history,
                   unfinalized, privateAssertionId, submitted, result>>
    /\ UNCHANGED <<merkleVars, pollVars, clientVars>>
    /\ UNCHANGED retrieved

\* handle_latest_finalized_state
HandleLatestFinalized ==
    /\ gpc = "latest_finalized"
    /\ LET latest == ToHex(get_latest_assertion_id)
       IN  /\ reads' = [reads EXCEPT !.latest = Some(latest)]
           /\ Resolved(latest, TRUE)
    /\ UNCHANGED <<entry, stateArg, visibility, validateArg, history,
                   unfinalized, privateAssertionId, submitted, result>>
    /\ UNCHANGED <<merkleVars, pollVars, clientVars>>
    /\ UNCHANGED retrieved

\* a node operation as submitted
GetOperation(assertion_id) ==
    [kind |-> "get", assertionId |-> assertion_id, repository |-> ""]
\* a private query that always goes to the current repository
QueryOperationCurrent(assertion_id, repository) ==
    [kind |-> "query", assertionId |-> assertion_id,
     repository |-> "privateCurrent"]

QueryOperation(assertion_id, repository) ==
    [kind |-> "query", assertionId |-> assertion_id, repository |-> repository]

\* self._get(ual, public_assertion_id, hashFunctionId=1)["operationId"] and
\* the call of get_operation_result
SubmitPublicGet ==
    /\ gpc = "submit_get"
    /\ submitted' = Append(submitted, GetOperation(publicAssertionId))
    /\ PollStart(Len(submitted) + 1, "get")
    /\ gpc' = "poll_get"
    /\ UNCHANGED <<entry, stateArg, visibility, validateArg, history,
                   unfinalized, reads, publicAssertionId, isStateFinalized,
                   privateAssertionId, outcome, errorInfo, result>>
    /\ UNCHANGED <<merkleVars, clientVars>>
    /\ UNCHANGED retrieved

GetStatuses == {"PENDING", "COMPLETED", "FAILED"}

DataFor(status, completedData) ==
    IF status = "COMPLETED" THEN completedData ELSE {EmptyData}

\* one status request of a polled get operation, of any entry point
PollGetStatus ==
    /\ gpc \in {"poll_get", "graph_poll", "content_poll"}
    /\ \E status \in GetStatuses : \E data \in DataFor(status, GetData) :
          PollStep(Response(status, attempts + 1, data))
    /\ UNCHANGED <<gpc, entry, stateArg, visibility, validateArg, history,
                   unfinalized, reads, publicAssertionId, isStateFinalized,
                   privateAssertionId, submitted, outcome, errorInfo, result>>
    /\ UNCHANGED <<merkleVars, clientVars>>
    /\ UNCHANGED retrieved

\* one status request of the polled query operation
PollQueryStatus ==
    /\ gpc = "poll_query"
    /\ \E status \in GetStatuses : \E data \in DataFor(status, QueryData) :
          PollStep(Response(status, attempts + 1, data))
    /\ UNCHANGED <<gpc, entry, stateArg, visibility, validateArg, history,
                   unfinalized, reads, publicAssertionId, isStateFinalized,
                   privateAssertionId, submitted, outcome, errorInfo, result>>
    /\ UNCHANGED <<merkleVars, clientVars>>
    /\ UNCHANGED retrieved

\* an exception of get_operation_result leaves the entry point
PollRaises ==
    /\ gpc \in {"poll_get", "poll_query", "graph_poll", "content_poll"}
    /\ pollPc = "raised"
    /\ Raise(pollError.type, NoInfo)
    /\ UNCHANGED <<entry, stateArg, visibility, validateArg, history,
                   unfinalized, reads, publicAssertionId, isStateFinalized,
                   privateAssertionId, submitted, result>>
    /\ UNCHANGED <<merkleVars, pollVars, clientVars>>
    /\ UNCHANGED retrieved

\* "\n".join(assertion), the JSON-LD output
JoinLines(assertion) == [text |-> assertion]

\* the list after hash_assertion_with_indexes(assertion) has run on it
AfterValidation(assertion, validate) ==
    IF validate THEN SortedInPlace(assertion, TRUE) ELSE assertion

\* filter(lambda element: PRIVATE_ASSERTION_PREDICATE in element, assertion)
LinkTriples(assertion) ==
    SelectSeq(assertion,
              LAMBDA element : \E i \in 1..Len(element) : element[i] = PredicateChar)

RECURSIVE FindChar(_, _, _)
FindChar(s, c, i) ==
    IF i > Len(s) THEN 0 ELSE IF s[i] = c THEN i ELSE FindChar(s, c, i + 1)

\* re.search(r'"(.*?)"', triple).group(1)
QuotedGroup(triple) ==
    LET open == FindChar(triple, QuoteChar, 1)
        close == FindChar(triple, QuoteChar, open + 1)
    IN  SubSeq(triple, open + 1, close - 1)

\* the integrity check of get: raises iff validate and the roots differ
IntegrityRaises(validate, root, assertion_id) ==
    validate /\ root # assertion_id

\* result after the block "if content_visibility != PRIVATE"
WithPublic(res, content_visibility, public_assertion, public_assertion_id) ==
    IF content_visibility # "PRIVATE"
    THEN [res EXCEPT
            !.publicKey = IF content_visibility = "PUBLIC" THEN "asertion"
                          ELSE "public",
            !.publicAssertion = Some(JoinLines(public_assertion)),
            !.publicAssertionId = public_assertion_id,
            !.operations = @ \cup {"publicGet"}]
    ELSE res

\* get from the return of the first poll to the submission of the private
\* query, or to its return when no query is made
ProcessPublic ==
    /\ gpc = "poll_get"
    /\ pollPc = "returned"
    /\ publicAssertion' =
         IF pollResult[1].data.assertion = None THEN None
         ELSE Some(AfterValidation(pollResult[1].data.assertion[1], validateArg))
    /\ privateAssertion' = None
    /\ LET data == pollResult[1].data
       IN  IF data.assertion = None
           THEN /\ Raise("MissingKnowledgeAssetState", NoInfo)
                /\ UNCHANGED <<privateAssertionId, submitted, result, pollVars>>
           ELSE
           LET root == Fingerprint(data.assertion[1])
               public_assertion == AfterValidation(data.assertion[1], validateArg)
               res == WithPublic(EmptyResult, visibility, public_assertion,
                                 publicAssertionId)
               links == LinkTriples(public_assertion)
           IN  IF IntegrityRaises(validateArg, root, publicAssertionId)
               THEN /\ Raise("InvalidKnowledgeAsset",
                             [state |-> publicAssertionId, root |-> root])
                    /\ UNCHANGED <<privateAssertionId, submitted, result,
                                   pollVars>>
               ELSE IF visibility # "PUBLIC" /\ links # <<>>
                       /\ data.privateAssertion = None
               THEN /\ privateAssertionId' = QuotedGroup(links[1])
                    /\ submitted' =
                         Append(submitted,
                                QueryOperation(
                                    QuotedGroup(links[1]),
                                    IF isStateFinalized THEN "privateCurrent"
                                    ELSE "privateHistory"))
                    /\ PollStart(Len(submitted) + 1, "query")
                    /\ result' = res
                    /\ gpc' = "poll_query"
                    /\ UNCHANGED <<outcome, errorInfo>>
               ELSE /\ privateAssertionId' =
                         IF visibility # "PUBLIC" /\ links # <<>>
                         THEN QuotedGroup(links[1]) ELSE privateAssertionId
                    /\ result' = res
                    /\ gpc' = "done"
                    /\ outcome' = "return"
                    /\ UNCHANGED <<submitted, errorInfo, pollVars>>
    /\ UNCHANGED <<entry, stateArg, visibility, validateArg, history,
                   unfinalized, reads, publicAssertionId, isStateFinalized>>
    /\ UNCHANGED <<merkleVars, clientVars>>

\* the set of the members of a list
Members(list) == {list[i] : i \in 1..Len(list)}

RECURSIVE SortedSeqOf(_)
SortedSeqOf(S) ==
    IF S = {} THEN <<>>
    ELSE LET least == CHOOSE x \in S : \A y \in S \ {x} : StrLess(x, y)
         IN  <<least>> \o SortedSeqOf(S \ {least})

\* normalize_dataset(dataset, "N-Quads") of a non-empty dataset: the
\* canonical list of its quads
normalize_dataset(dataset) == SortedSeqOf(Members(dataset))

\* get from the return of the second poll to its return
ProcessPrivate ==
    /\ gpc = "poll_query"
    /\ pollPc = "returned"
    /\ privateAssertion' =
         Some(normalize_dataset(pollResult[1].data.nquads[1]))
    /\ publicAssertion' = publicAssertion
    /\ LET private_assertion == normalize_dataset(pollResult[1].data.nquads[1])
           root == Fingerprint(private_assertion)
       IN  IF IntegrityRaises(validateArg, root, privateAssertionId)
           THEN /\ Raise("InvalidKnowledgeAsset",
                         [state |-> privateAssertionId, root |-> root])
                /\ UNCHANGED result
           ELSE /\ result' =
                     [result EXCEPT
                        !.privateKey = "private",
                        !.privateAssertion = Some(JoinLines(private_assertion)),
                        !.privateAssertionId = privateAssertionId,
                        !.operations = @ \cup {"queryPrivate"}]
                /\ gpc' = "done"
                /\ outcome' = "return"
                /\ UNCHANGED errorInfo
    /\ UNCHANGED <<entry, stateArg, visibility, validateArg, history,
                   unfinalized, reads, publicAssertionId, isStateFinalized,
                   privateAssertionId, submitted>>
    /\ UNCHANGED <<merkleVars, pollVars, clientVars>>

\* ---------------------------------------------------------------- Graph.get
\* self._get(ual + ':' + state, ...)["operationId"] and the call of
\* get_operation_result
GraphSubmitGet ==
    /\ gpc = "graph_call"
    /\ submitted' = Append(submitted, GetOperation(<<>>))
    /\ PollStart(Len(submitted) + 1, "get")
    /\ gpc' = "graph_poll"
    /\ UNCHANGED <<entry, stateArg, visibility, validateArg, history,
                   unfinalized, reads, publicAssertionId, isStateFinalized,
                   privateAssertionId, outcome, errorInfo, result>>
    /\ UNCHANGED <<merkleVars, clientVars>>
    /\ UNCHANGED retrieved

\* isValid = True  # TODO: validate assertion
GraphIsValid(assertion) == TRUE

\* Graph.get from the return of the poll to its return
GraphProcess ==
    /\ gpc = "graph_poll"
    /\ pollPc = "returned"
    /\ publicAssertion' = pollResult[1].data.assertion
    /\ privateAssertion' = None
    /\ LET data == pollResult[1].data
       IN  IF data.assertion = None
           THEN /\ Raise("MissingKnowledgeAssetState", NoInfo)
                /\ UNCHANGED result
           ELSE IF validateArg /\ ~GraphIsValid(data.assertion[1])
           THEN /\ Raise("InvalidKnowledgeAsset", NoInfo)
                /\ UNCHANGED result
           ELSE /\ result' =
                     [EmptyResult EXCEPT
                        !.publicKey = "asertion",
                        !.publicAssertion = Some(JoinLines(data.assertion[1])),
                        !.operations = {"get"}]
                /\ gpc' = "done"
                /\ outcome' = "return"
                /\ UNCHANGED errorInfo
    /\ UNCHANGED <<entry, stateArg, visibility, validateArg, history,
                   unfinalized, reads, publicAssertionId, isStateFinalized,
                   privateAssertionId, submitted>>
    /\ UNCHANGED <<merkleVars, pollVars, clientVars>>

\* ---------------------------------------------------------- ContentAsset.get
\* self._get(ual, hashFunctionId=1)["operationId"] and the call of the local
\* get_operation_result
ContentSubmitGet ==
    /\ gpc = "content_call"
    /\ submitted' = Append(submitted, GetOperation(<<>>))
    /\ PollStart(Len(submitted) + 1, "get")
    /\ gpc' = "content_poll"
    /\ UNCHANGED <<entry, stateArg, visibility, validateArg, history,
                   unfinalized, reads, publicAssertionId, isStateFinalized,
                   privateAssertionId, outcome, errorInfo, result>>
    /\ UNCHANGED <<merkleVars, clientVars>>
    /\ UNCHANGED retrieved

\* the local get_operation_result has no return statement: its result is
\* None, and operation_result["data"] raises TypeError
ContentProcess ==
    /\ gpc = "content_poll"
    /\ pollPc = "returned"
    /\ Raise("TypeError", NoInfo)
    /\ UNCHANGED <<entry, stateArg, visibility, validateArg, history,
                   unfinalized, reads, publicAssertionId, isStateFinalized,
                   privateAssertionId, submitted, result>>
    /\ UNCHANGED <<merkleVars, pollVars, clientVars>>
    /\ UNCHANGED retrieved

\* ------------------------------------------------------- the calls made
Histories == SeqsUpTo(RegistryEntries, MaxHistory)

\* a fingerprint in upper case, and one a digit short
UpperFingerprint ==
    Prefix0x \o UpperChars(RegistryEntry(PlainPublic).b)
ShortFingerprint ==
    LET h == ToHex(RegistryEntry(PlainPublic))
    IN  SubSeq(h, 1, Len(h) - 1)

Selectors ==
    {TextSel(t) : t \in {"LATEST", "latest", "LATEST_FINALIZED", "bogus"}}
    \cup {IntSel(n) : n \in (-1)..MaxHistory}
    \cup {CharsSel(ToHex(e)) : e \in RegistryEntries \cup {UnknownEntry}}
    \cup {CharsSel(UpperFingerprint), CharsSel(ShortFingerprint), NoneSel}

Visibilities == {"ALL", "PUBLIC", "PRIVATE"}

GetInit ==
    /\ entry \in {"KnowledgeAsset.get", "Graph.get", "ContentAsset.get"}
    /\ validateArg \in BOOLEAN
    /\ IF entry = "KnowledgeAsset.get"
       THEN /\ gpc = "resolve"
            /\ stateArg \in Selectors
            /\ visibility \in Visibilities
            /\ history \in Histories
            /\ unfinalized \in RegistryEntries \cup {ZeroBytes32}
       ELSE /\ gpc = IF entry = "Graph.get" THEN "graph_call" ELSE "content_call"
            /\ stateArg = NoneSel
            /\ visibility = "ALL"
            /\ history = <<RegistryEntry(PlainPublic)>>
            /\ unfinalized = ZeroBytes32
    /\ reads = NoReads
    /\ publicAssertionId = <<>>
    /\ isStateFinalized = FALSE
    /\ privateAssertionId = <<>>
    /\ publicAssertion = None
    /\ privateAssertion = None
    /\ submitted = <<>>
    /\ outcome = "none"
    /\ errorInfo = NoInfo
    /\ result = EmptyResult

GetNext ==
    \/ ResolveState
    \/ HandleLatestFinalized
    \/ SubmitPublicGet
    \/ PollGetStatus
    \/ PollQueryStatus
    \/ PollRaises
    \/ ProcessPublic
    \/ ProcessPrivate
    \/ GraphSubmitGet
    \/ GraphProcess
    \/ ContentSubmitGet
    \/ ContentProcess

GetSpecInit == GetInit /\ PollIdle /\ MerkleIdle /\ ClientIdle

GetSpec == GetSpecInit /\ [][GetNext]_vars

\* ================================================ the Assertion module
MaxGraph == 3
MaxPrivate == 2

\* what format_content returns, or the exception normalize_dataset raises
Formatted(public_assertion, private_assertion) ==
    [public |-> public_assertion, private |-> private_assertion,
     error |-> "none"]
FormatRaises(exc) == [public |-> <<>>, private |-> <<>>, error |-> exc]

\* format_content with the link statement left out of the public graph
format_content_unlinked(c) ==
    IF c.public = <<>>
    THEN FormatRaises("InvalidDataset")
    ELSE Formatted(normalize_dataset(c.public),
                   IF c.private # <<>> THEN normalize_dataset(c.private)
                   ELSE <<>>)

\* format_content(content): a dataset is the list of its statements, an
\* absent or empty one is <<>>; the "@graph" list is the statements of the
\* public dataset followed by the link statement
format_content(c) ==
    LET has_private == c.private # <<>>
        private_assertion == normalize_dataset(c.private)
        private_assertion_id == Fingerprint(private_assertion)
        public_graph ==
            (IF c.public # <<>> THEN c.public ELSE <<>>)
            \o (IF has_private
                THEN <<LinkStatement(private_assertion_id)>> ELSE <<>>)
    IN  IF public_graph = <<>>
        THEN FormatRaises("InvalidDataset")
        ELSE Formatted(normalize_dataset(public_graph),
                       IF has_private THEN private_assertion ELSE <<>>)

\* get_public_assertion_id that fingerprints the public dataset as given
public_assertion_id_of_input(c) ==
    IF c.public = <<>>
    THEN [id |-> <<>>, error |-> "InvalidDataset"]
    ELSE [id |-> Fingerprint(normalize_dataset(c.public)), error |-> "none"]

\* Assertion.get_public_assertion_id(content)
get_public_assertion_id(c) ==
    LET formatted == format_content(c)
    IN  IF formatted.error # "none"
        THEN [id |-> <<>>, error |-> formatted.error]
        ELSE [id |-> Fingerprint(formatted.public), error |-> "none"]

\* the statements of the datasets passed in
GraphStatements == {<<StmtBase + 1>>, <<StmtBase + 2>>, <<StmtBase + 3>>}
PrivateStatements == {<<StmtBase + 1>>, <<StmtBase + 4>>}

\* datasets: lists of statements in any order, repetitions included, and
\* the absent one
PublicDatasets == SeqsUpTo(GraphStatements, MaxGraph) \cup {<<>>}
PrivateDatasets == SeqsUpTo(PrivateStatements, MaxPrivate) \cup {<<>>}

AssembleInit ==
    /\ apc = "start"
    /\ content \in [public : PublicDatasets, private : PrivateDatasets]
    /\ otherPrivate \in PrivateDatasets
    /\ assertions = [public |-> <<>>, private |-> <<>>, error |-> "none"]
    /\ publicIds = <<>>

\* Assertion.format_graph(content)
FormatGraph ==
    /\ apc = "start"
    /\ assertions' = format_content(content)
    /\ apc' = "formatted"
    /\ UNCHANGED <<content, otherPrivate, publicIds>>
    /\ UNCHANGED <<treeVars, pairVars>>
    /\ UNCHANGED <<pollVars, getVars, clientVars>>

\* Assertion.get_public_assertion_id, called for content and then for the
\* same public dataset with the other private one
PublicAssertionId ==
    /\ apc \in {"formatted", "first_id"}
    /\ publicIds' =
         Append(publicIds,
                get_public_assertion_id(
                    IF apc = "formatted" THEN content
                    ELSE [content EXCEPT !.private = otherPrivate]))
    /\ apc' = IF apc = "formatted" THEN "first_id" ELSE "done"
    /\ UNCHANGED <<content, otherPrivate, assertions>>
    /\ UNCHANGED <<treeVars, pairVars>>
    /\ UNCHANGED <<pollVars, getVars, clientVars>>

AssembleNext ==
    \/ FormatGraph
    \/ PublicAssertionId

AssembleSpecInit ==
    AssembleInit /\ TreeIdle /\ PairIdle /\ PollIdle /\ GetIdle /\ ClientIdle

AssembleSpec == AssembleSpecInit /\ [][AssembleNext]_vars

\* ======================================= two lists fingerprinted alike
MaxPairLen == 3

\* MerkleTree(hash_assertion_with_indexes(L, sort=sort), sort_pairs=True).root
FingerprintIn(leaves, sort) ==
    Root(build_tree(hash_assertion_with_indexes(leaves, sort), TRUE))

PairLists == SeqsUpTo(Statements, MaxPairLen)

\* any two lists
PairInit ==
    /\ ppc = "start"
    /\ pairGiven \in [1..2 -> PairLists]
    /\ pairLists = pairGiven
    /\ pairSort \in BOOLEAN
    /\ pairRoots = <<>>

\* a list and the list that differs from it in one statement
OneChanged(L) ==
    {[L EXCEPT ![i] = s] : i \in 1..Len(L), s \in Statements} \ {L}

MutateInit ==
    /\ ppc = "start"
    /\ \E L \in StatementLists : \E M \in OneChanged(L) : pairGiven = <<L, M>>
    /\ pairLists = pairGiven
    /\ pairSort \in BOOLEAN
    /\ pairRoots = <<>>

\* the fingerprint of the next of the two lists is computed; the list
\* object is sorted in place when sort is set
FingerprintList ==
    /\ ppc = "start"
    /\ Len(pairRoots) < 2
    /\ LET k == Len(pairRoots) + 1
       IN  /\ pairRoots' = Append(pairRoots, FingerprintIn(pairLists[k], pairSort))
           /\ pairLists' =
                [pairLists EXCEPT ![k] = SortedInPlace(pairLists[k], pairSort)]
           /\ ppc' = IF k = 2 THEN "done" ELSE "start"
    /\ UNCHANGED <<pairGiven, pairSort>>
    /\ UNCHANGED <<treeVars, assembleVars>>
    /\ UNCHANGED <<pollVars, getVars, clientVars>>

PairNext == FingerprintList

PairSpecInit ==
    PairInit /\ TreeIdle /\ AssembleIdle /\ PollIdle /\ GetIdle /\ ClientIdle

PairSpec == PairSpecInit /\ [][PairNext]_vars

MutateSpecInit ==
    MutateInit /\ TreeIdle /\ AssembleIdle /\ PollIdle /\ GetIdle
        /\ ClientIdle

MutateSpec == MutateSpecInit /\ [][PairNext]_vars

\* ================================================================== UALs
MaxName == 2
MaxTokenId == 11

\* ':' and '/', and the text "did:dkg:" with letter codes of its own for
\* 'i', 'k' and 'g' ('d' is the hex digit 13)
ColonChar == 50
SlashChar == 51
DidPrefix == <<13, 52, 13, ColonChar, 13, 53, 54, ColonChar>>

\* str.split(sep) for a one-character sep: the pieces between the seps
RECURSIVE SplitFrom(_, _, _)
SplitFrom(s, sep, piece) ==
    IF s = <<>> THEN <<piece>>
    ELSE IF Head(s) = sep THEN <<piece>> \o SplitFrom(Tail(s), sep, <<>>)
    ELSE SplitFrom(Tail(s), sep, Append(piece, Head(s)))

Split(s, sep) == SplitFrom(s, sep, <<>>)

\* f"{token_id}": the decimal digits of a natural number
RECURSIVE DecimalDigits(_)
DecimalDigits(n) ==
    IF n < 10 THEN <<n>> ELSE Append(DecimalDigits(n \div 10), n % 10)

\* int(token_id): the number a digit string denotes, ValueError otherwise
RECURSIVE DigitsValue(_)
DigitsValue(s) ==
    IF s = <<>> THEN 0 ELSE 10 * DigitsValue(SubSeq(s, 1, Len(s) - 1)) + s[Len(s)]

IntOf(s) ==
    IF s # <<>> /\ \A i \in 1..Len(s) : s[i] \in 0..9
    THEN [raised |-> "none", value |-> DigitsValue(s)]
    ELSE [raised |-> "ValueError", value |-> 0]

\* f"did:dkg:{blockchain.lower()}/{contract_address.lower()}/{token_id}"
format_ual(blockchain, contract_address, token_id) ==
    DidPrefix \o LowerChars(blockchain) \o <<SlashChar>>
        \o LowerChars(contract_address) \o <<SlashChar>>
        \o DecimalDigits(token_id)

Parsed(raised, blockchain, contract_address, token_id) ==
    [raised |-> raised, blockchain |-> blockchain,
     contractAddress |-> contract_address, tokenId |-> token_id]

\* parse_ual(ual): args = ual.split(":")[-1].split("/")
parse_ual(ual) ==
    LET pieces == Split(ual, ColonChar)
        args == Split(pieces[Len(pieces)], SlashChar)
    IN  IF Len(args) # 3
        THEN Parsed("ValidationError", <<>>, <<>>, 0)
        ELSE Parsed(IntOf(args[3]).raised, args[1], args[2], IntOf(args[3]).value)

\* blockchain identifiers: a name of letters in either case, alone
\* ("ethereum") or followed by ':' and a chain number ("otp:2043")
ChainNames == SeqsUpTo({10, 11, 10 + UpperOffset}, MaxName)
ChainNumbers == {<<2>>, <<2, 0>>}
BlockchainIds ==
    ChainNames \cup {n \o <<ColonChar>> \o c : n \in ChainNames, c \in ChainNumbers}

\* contract addresses: "0x" and hex digits in either case
ContractAddresses ==
    {<<0, CharX>> \o h : h \in [1..2 -> {1, 10, 10 + UpperOffset}]}

UalInit ==
    /\ upc = "start"
    /\ ualArgs \in [blockchain : BlockchainIds,
                    contract_address : ContractAddresses,
                    token_id : 0..MaxTokenId]
    /\ ualText = <<>>
    /\ ualParsed = <<>>

\* ual = format_ual(blockchain, contract_address, token_id)
FormatUal ==
    /\ upc = "start"
    /\ ualText' = format_ual(ualArgs.blockchain, ualArgs.contract_address,
                             ualArgs.token_id)
    /\ upc' = "formatted"
    /\ UNCHANGED <<ualArgs, ualParsed, snapshots, writeVars, firstResolved,
                   providerVars>>
    /\ UNCHANGED <<merkleVars, pollVars, getVars>>

\* parse_ual(ual)
ParseUal ==
    /\ upc = "formatted"
    /\ ualParsed' = Some(parse_ual(ualText))
    /\ upc' = "parsed"
    /\ UNCHANGED <<ualArgs, ualText, snapshots, writeVars, firstResolved,
                   providerVars>>
    /\ UNCHANGED <<merkleVars, pollVars, getVars>>

UalNext == FormatUal \/ ParseUal

UalSpecInit ==
    /\ UalInit /\ MerkleIdle /\ PollIdle /\ GetIdle
    /\ snapshots = {} /\ WriteIdle /\ RepeatIdle /\ ProviderIdle

UalSpec == UalSpecInit /\ [][UalNext]_vars

\* ================================== get while the registry is updated
MaxUpdates == 2

Snapshot == [history |-> history, unfinalized |-> unfinalized]

Resolving == gpc \in {"resolve", "latest_finalized"}

\* the registry as another party's transaction leaves it, recorded while
\* the get resolves
Updated(new_history, new_unfinalized) ==
    /\ Resolving
    /\ Cardinality(snapshots) <= MaxUpdates
    /\ history' = new_history
    /\ unfinalized' = new_unfinalized
    /\ snapshots' =
         snapshots \cup {[history |-> new_history, unfinalized |-> new_unfinalized]}
    /\ UNCHANGED <<gpc, entry, stateArg, visibility, validateArg, reads,
                   publicAssertionId, isStateFinalized, privateAssertionId,
                   submitted, outcome, errorInfo, result>>
    /\ UNCHANGED retrieved
    /\ UNCHANGED <<merkleVars, pollVars, ualVars, writeVars, firstResolved,
                   providerVars>>

\* another party proposes a state: the unfinalized slot is filled
ProposeState ==
    /\ unfinalized = ZeroBytes32
    /\ \E e \in RegistryEntries : Updated(history, e)

\* the pending state is finalized: appended to the history, the slot cleared
FinalizeState ==
    /\ unfinalized # ZeroBytes32
    /\ Updated(Append(history, unfinalized), ZeroBytes32)

\* the history is extended by a state that is finalized at once
ExtendHistory ==
    /\ unfinalized = ZeroBytes32
    /\ \E e \in RegistryEntries : Updated(Append(history, e), ZeroBytes32)

ConcurrentInit ==
    /\ GetInit
    /\ entry = "KnowledgeAsset.get"
    /\ visibility = "ALL"
    /\ ~validateArg
    /\ snapshots = {Snapshot}

ConcurrentNext ==
    \/ ResolveState
    \/ HandleLatestFinalized
    \/ ProposeState
    \/ FinalizeState
    \/ ExtendHistory

ConcurrentSpecInit ==
    /\ ConcurrentInit /\ PollIdle /\ MerkleIdle
    /\ UalIdle /\ WriteIdle /\ RepeatIdle /\ ProviderIdle

ConcurrentSpec == ConcurrentSpecInit /\ [][ConcurrentNext]_vars

\* ======================================================= create and update
MaxAmount == 2

\* a value of the node's JSON answer, and a member of the plain Enum
\* OperationStatus: Python values of two types
PyStr(s) == [type |-> "str", value |-> s]
OperationStatus(name) == [type |-> "OperationStatus", value |-> name]

\* operation_result["status"] == OperationStatus.COMPLETED
StatusIsCompleted(operation_result) ==
    PyStr(operation_result.status) = OperationStatus("COMPLETED")

\* a token transaction as sent
AllowanceTx(function, value) == [function |-> function, value |-> value]

\* decrease_allowance on a chain without its min(): all of it is given up
decrease_allowance_all(current, token_amount) ==
    [subtracted |-> current, allowance |-> 0]

\* decrease_allowance(token_amount) on a chain whose allowance is current
decrease_allowance(current, token_amount) ==
    LET subtracted_value == IF token_amount < current THEN token_amount ELSE current
    IN  [subtracted |-> subtracted_value, allowance |-> current - subtracted_value]

\* assertions_list of create and of update
AssertionsList(formatted) ==
    <<[assertionId |-> Fingerprint(formatted.public),
       assertion |-> formatted.public]>>
    \o IF formatted.private # <<>>
       THEN <<[assertionId |-> Fingerprint(formatted.private),
               assertion |-> formatted.private]>>
       ELSE <<>>

NodeOp(kind, assertions_list) == [kind |-> kind, assertions |-> assertions_list]

\* self._publish(...), self._update(...) or self._local_store(...) and the
\* call of get_operation_result that follows it
SubmitAndPoll(kind, assertions_list, next) ==
    /\ nodeOps' = Append(nodeOps, NodeOp(kind, assertions_list))
    /\ PollStart(Len(nodeOps) + 1, kind)
    /\ wpc' = next

\* create and update from their entry to the first poll, or to the raise of
\* the transaction: the allowance is read and increased when it is short,
\* the asset is minted or its state updated, and on ContractLogicError the
\* increase is taken back
WriteCall ==
    /\ wpc = "start"
    /\ \E tx \in {"receipt", "ContractLogicError"} :
        LET increased == allowance < tokenAmount
            raised == IF increased THEN allowance + tokenAmount ELSE allowance
            back == decrease_allowance(raised, tokenAmount)
            increase == IF increased
                        THEN <<AllowanceTx("increaseAllowance", tokenAmount)>>
                        ELSE <<>>
        IN  /\ currentAllowance' = allowance
            /\ isAllowanceIncreased' = increased
            /\ IF tx = "ContractLogicError"
               THEN /\ allowance' = IF increased THEN back.allowance ELSE raised
                    /\ sentTxs' =
                         increase \o
                         IF increased
                         THEN <<AllowanceTx("decreaseAllowance", back.subtracted)>>
                         ELSE <<>>
                    /\ wpc' = "done"
                    /\ writeOutcome' = "ContractLogicError"
                    /\ UNCHANGED <<nodeOps, pollVars>>
               ELSE /\ allowance' = raised
                    /\ sentTxs' = increase
                    /\ writeOutcome' = writeOutcome
                    /\ IF writeOp = "create"
                       THEN SubmitAndPoll("publish",
                                          <<AssertionsList(assertionsArg)[1]>>,
                                          "publish_poll")
                       ELSE SubmitAndPoll("local-store",
                                          AssertionsList(assertionsArg),
                                          "store_poll")
    /\ writeResult' = IF writeOp = "create" /\ wpc' # "done"
                      THEN {"mintKnowledgeAsset"} ELSE {}
    /\ UNCHANGED <<writeOp, assertionsArg, tokenAmount>>
    /\ UNCHANGED <<merkleVars, getVars, ualVars, snapshots, firstResolved,
                   providerVars>>

WriteStatuses == {"PENDING", "COMPLETED", "FAILED"}

\* one status request of the operation create or update is polling
PollWriteStatus ==
    /\ wpc \in {"publish_poll", "store_poll", "update_poll"}
    /\ \E status \in WriteStatuses :
          PollStep(Response(status, attempts + 1, EmptyData))
    /\ UNCHANGED writeVars
    /\ UNCHANGED <<merkleVars, getVars, ualVars, snapshots, firstResolved,
                   providerVars>>

\* an exception of get_operation_result leaves create or update
WritePollRaises ==
    /\ wpc \in {"publish_poll", "store_poll", "update_poll"}
    /\ pollPc = "raised"
    /\ wpc' = "done"
    /\ writeOutcome' = pollError.type
    /\ UNCHANGED <<writeOp, assertionsArg, tokenAmount, allowance,
                   currentAllowance, isAllowanceIncreased, sentTxs, nodeOps,
                   writeResult>>
    /\ UNCHANGED <<merkleVars, pollVars, getVars, ualVars, snapshots,
                   firstResolved, providerVars>>

\* create from the return of the poll of publish to the poll of the local
\* store, or to its return
AfterPublish ==
    /\ wpc = "publish_poll"
    /\ pollPc = "returned"
    /\ writeResult' = writeResult \cup {"publish"}
    /\ IF StatusIsCompleted(pollResult[1])
       THEN /\ SubmitAndPoll("local-store", AssertionsList(assertionsArg),
                             "store_poll")
            /\ UNCHANGED writeOutcome
       ELSE /\ wpc' = "done"
            /\ writeOutcome' = "return"
            /\ UNCHANGED <<nodeOps, pollVars>>
    /\ UNCHANGED <<writeOp, assertionsArg, tokenAmount, allowance,
                   currentAllowance, isAllowanceIncreased, sentTxs>>
    /\ UNCHANGED <<merkleVars, getVars, ualVars, snapshots, firstResolved,
                   providerVars>>

\* from the return of the poll of the local store: create returns, update
\* submits the update operation and polls it
AfterLocalStore ==
    /\ wpc = "store_poll"
    /\ pollPc = "returned"
    /\ IF writeOp = "create"
       THEN /\ writeResult' = writeResult \cup {"localStore"}
            /\ wpc' = "done"
            /\ writeOutcome' = "return"
            /\ UNCHANGED <<nodeOps, pollVars>>
       ELSE /\ SubmitAndPoll("update", <<AssertionsList(assertionsArg)[1]>>,
                             "update_poll")
            /\ UNCHANGED <<writeResult, writeOutcome>>
    /\ UNCHANGED <<writeOp, assertionsArg, tokenAmount, allowance,
                   currentAllowance, isAllowanceIncreased, sentTxs>>
    /\ UNCHANGED <<merkleVars, getVars, ualVars, snapshots, firstResolved,
                   providerVars>>

\* update from the return of the poll of the update operation to its return
AfterUpdate ==
    /\ wpc = "update_poll"
    /\ pollPc = "returned"
    /\ writeResult' = {"update"}
    /\ wpc' = "done"
    /\ writeOutcome' = "return"
    /\ UNCHANGED <<writeOp, assertionsArg, tokenAmount, allowance,
                   currentAllowance, isAllowanceIncreased, sentTxs, nodeOps>>
    /\ UNCHANGED <<merkleVars, pollVars, getVars, ualVars, snapshots,
                   firstResolved, providerVars>>

\* the assertions of content without and with a private graph
WrittenAssertions ==
    {[public |-> PlainPublic, private |-> <<>>],
     [public |-> LinkedPublic, private |-> PublishedPrivate]}

WriteInit ==
    /\ wpc = "start"
    /\ writeOp \in {"create", "update"}
    /\ assertionsArg \in WrittenAssertions
    /\ tokenAmount \in 0..MaxAmount
    /\ allowance \in 0..MaxAmount
    /\ currentAllowance = 0
    /\ isAllowanceIncreased = FALSE
    /\ sentTxs = <<>>
    /\ nodeOps = <<>>
    /\ writeResult = {}
    /\ writeOutcome = "none"

WriteNext ==
    \/ WriteCall
    \/ PollWriteStatus
    \/ WritePollRaises
    \/ AfterPublish
    \/ AfterLocalStore
    \/ AfterUpdate

WriteSpecInit ==
    /\ WriteInit /\ MerkleIdle /\ PollIdle /\ GetIdle
    /\ UalIdle /\ snapshots = {} /\ RepeatIdle /\ ProviderIdle

WriteSpec == WriteSpecInit /\ [][WriteNext]_vars

\* ============================== two gets of one asset, by index and by hash
\* get(ual, state=i) has resolved its selector: the caller calls
\* get(ual, state=S[i]) with the fingerprint the first call resolved, the
\* registry being what it was
CallAgain ==
    /\ entry = "KnowledgeAsset.get"
    /\ gpc = "submit_get"
    /\ stateArg.type = "int"
    /\ firstResolved = <<>>
    /\ firstResolved' = Some([index |-> stateArg.num,
                              fingerprint |-> publicAssertionId,
                              finalized |-> isStateFinalized])
    /\ stateArg' = CharsSel(publicAssertionId)
    /\ gpc' = "resolve"
    /\ reads' = NoReads
    /\ publicAssertionId' = <<>>
    /\ isStateFinalized' = FALSE
    /\ UNCHANGED <<entry, visibility, validateArg, history, unfinalized,
                   privateAssertionId, submitted, outcome, errorInfo, result>>
    /\ UNCHANGED retrieved
    /\ UNCHANGED <<merkleVars, pollVars, ualVars, snapshots, writeVars,
                   providerVars>>

RepeatInit ==
    /\ gpc = "resolve"
    /\ entry = "KnowledgeAsset.get"
    /\ stateArg \in {IntSel(n) : n \in (-1)..(MaxHistory + 1)}
    /\ visibility \in Visibilities
    /\ validateArg \in BOOLEAN
    /\ history \in SeqsUpTo(RegistryEntries, MaxHistory + 1)
    /\ unfinalized \in RegistryEntries \cup {ZeroBytes32}
    /\ reads = NoReads
    /\ publicAssertionId = <<>>
    /\ isStateFinalized = FALSE
    /\ privateAssertionId = <<>>
    /\ publicAssertion = None
    /\ privateAssertion = None
    /\ submitted = <<>>
    /\ outcome = "none"
    /\ errorInfo = NoInfo
    /\ result = EmptyResult
    /\ firstResolved = <<>>

RepeatNext == ResolveState \/ CallAgain

RepeatSpecInit ==
    /\ RepeatInit /\ PollIdle /\ MerkleIdle
    /\ UalIdle /\ snapshots = {} /\ WriteIdle /\ ProviderIdle

RepeatSpec == RepeatSpecInit /\ [][RepeatNext]_vars

\* ================================== BlockchainProvider.call_function
\* the depth of calls the interpreter allows before RecursionError, counted
\* in calls of call_function
RecursionLimit == 5

Frame(function, pc) == [function |-> function, pc |-> pc]

Front(s) == SubSeq(s, 1, Len(s) - 1)

\* the innermost call of call_function ends: result is "true" or "false"
\* (the value returned) or "raise".  The outermost call ends the whole
\* call.  A call of status was made by _check_contract_status in the
\* except branch of the wrapper one level out: a raise is caught there and
\* counts as False; on True that wrapper re-raises its own error, on False
\* it goes on to _update_contract_instance
RECURSIVE Ended(_, _)
Ended(fs, ended) ==
    IF Len(fs) = 1
    THEN [frames |-> <<>>,
          out |-> IF ended = "raise" THEN "raised" ELSE "returned"]
    ELSE IF ended = "true"
    THEN Ended(Front(fs), "raise")
    ELSE [frames |-> [Front(fs) EXCEPT ![Len(fs) - 1].pc = "update"],
          out |-> "none"]

\* what one execution of a contract function does: the values status()
\* returns, a revert ("revert" or "VM Exception" in the message) or
\* another error
Executions == {"true", "false", "revert", "error"}

Counted(function) ==
    /\ executed' = IF function = "requested" THEN executed + 1 ELSE executed
    /\ probes' = IF function = "status" THEN probes + 1 ELSE probes

Continue(ended) ==
    /\ frames' = ended.frames
    /\ providerOut' = ended.out

\* wrapper(): func(self, *args, **kwargs) in the try block and, on a
\* revert of a contract given by name, the call of _check_contract_status,
\* which calls call_function(contract, "status")
Execute ==
    /\ frames # <<>>
    /\ frames[Len(frames)].pc = "try"
    /\ LET top == frames[Len(frames)]
       IN  /\ Counted(top.function)
           /\ \E e \in Executions :
                IF e = "revert" /\ (contractArg = "name" \/ top.function = "status")
                THEN IF Len(frames) < RecursionLimit
                     THEN /\ frames' =
                               Append([frames EXCEPT ![Len(frames)].pc = "probing"],
                                      Frame("status", "try"))
                          /\ providerOut' = providerOut
                     ELSE \* RecursionError, caught by _check_contract_status
                          /\ frames' = [frames EXCEPT ![Len(frames)].pc = "update"]
                          /\ providerOut' = providerOut
                ELSE Continue(Ended(frames,
                                    IF e \in {"revert", "error"} THEN "raise"
                                    ELSE e))
    /\ UNCHANGED <<contractArg, updates>>
    /\ UNCHANGED <<merkleVars, pollVars, getVars, ualVars, snapshots,
                   writeVars, firstResolved>>

\* is_updated = self._update_contract_instance(contract_name)
UpdateInstance ==
    /\ frames # <<>>
    /\ frames[Len(frames)].pc = "update"
    /\ updates' = updates + 1
    /\ \E is_updated \in BOOLEAN :
        IF is_updated
        THEN /\ frames' = [frames EXCEPT ![Len(frames)].pc = "retry"]
             /\ providerOut' = providerOut
        ELSE Continue(Ended(frames, "raise"))
    /\ UNCHANGED <<contractArg, executed, probes>>
    /\ UNCHANGED <<merkleVars, pollVars, getVars, ualVars, snapshots,
                   writeVars, firstResolved>>

\* return func(self, *args, **kwargs) in the except block
Retry ==
    /\ frames # <<>>
    /\ frames[Len(frames)].pc = "retry"
    /\ Counted(frames[Len(frames)].function)
    /\ \E e \in Executions :
          Continue(Ended(frames, IF e \in {"revert", "error"} THEN "raise" ELSE e))
    /\ UNCHANGED <<contractArg, updates>>
    /\ UNCHANGED <<merkleVars, pollVars, getVars, ualVars, snapshots,
                   writeVars, firstResolved>>

ProviderInit ==
    /\ frames = <<Frame("requested", "try")>>
    /\ contractArg \in {"name", "dict"}
    /\ executed = 0
    /\ probes = 0
    /\ updates = 0
    /\ providerOut = "none"

ProviderNext == Execute \/ UpdateInstance \/ Retry

ProviderSpecInit ==
    /\ ProviderInit /\ MerkleIdle /\ PollIdle /\ GetIdle
    /\ UalIdle /\ snapshots = {} /\ WriteIdle /\ RepeatIdle

ProviderSpec == ProviderSpecInit /\ [][ProviderNext]_vars

\* =============================================================== claims
\* C1: in sorted-pair mode, for every non-empty statement list every leaf's
\* proof verifies against the tree built from the list
C1_ProofVerifiesSorted ==
    (mpc = "verified" /\ sortPairs) => verifyOut = "true"

\* a proof of a carried-up trailing leaf of a five-leaf tree has verified
C1_Witness ==
    /\ mpc = "verified"
    /\ sortPairs
    /\ Len(leafList) = 5
    /\ proofLeaf = leafList[5]
    /\ verifyOut = "true"

\* --------------------------------------------------- state resolution
\* the match statement of KnowledgeAsset.get has run to its end
ResolutionOver ==
    entry = "KnowledgeAsset.get" /\ gpc \notin {"resolve", "latest_finalized"}

IsLatest(sel) == sel.type = "text" /\ UpperText(sel.text) = "LATEST"
IsLatestFinalized(sel) ==
    sel.type = "text" /\ UpperText(sel.text) = "LATEST_FINALIZED"

InvalidSelector ==
    \/ stateArg.type = "none"
    \/ stateArg.type = "text" /\ ~IsLatest(stateArg) /\ ~IsLatestFinalized(stateArg)
    \/ stateArg.type = "chars" /\ ~MatchesFingerprint(stateArg)
    \/ stateArg.type = "int"
         /\ ~(0 <= stateArg.num /\ stateArg.num < Len(history))
    \/ /\ stateArg.type = "chars"
       /\ MatchesFingerprint(stateArg)
       /\ \A i \in 1..Len(history) : ToHex(history[i]) # stateArg.chars

ClaimedPublic ==
    IF entry = "KnowledgeAsset.get" THEN HexToBytes(publicAssertionId)
    ELSE history[Len(history)]

\* the public statements the entry point has retrieved, once it is over
RetrievedPublic ==
    IF entry = "ContentAsset.get"
    THEN IF pollPc = "returned" THEN pollResult[1].data.assertion ELSE None
    ELSE publicAssertion

IntegrityError == {"InvalidKnowledgeAsset", "InvalidAsset"}

\* C6: with validation enabled every get entry point raises the integrity
\* error, carrying the claimed fingerprint and the recomputed root, whenever
\* the root recomputed from the retrieved statements differs from the
\* claimed fingerprint, and returns no content then
C6_MismatchRaises ==
    (gpc = "done" /\ validateArg) =>
        /\ (/\ RetrievedPublic # None
            /\ HexToBytes(Fingerprint(RetrievedPublic[1])) # ClaimedPublic)
           => /\ outcome \in IntegrityError
              /\ HexToBytes(errorInfo.state) = ClaimedPublic
              /\ errorInfo.root = Fingerprint(RetrievedPublic[1])
              /\ result = EmptyResult
        /\ (/\ privateAssertion # None
            /\ Fingerprint(privateAssertion[1]) # privateAssertionId)
           => /\ outcome \in IntegrityError
              /\ errorInfo.state = privateAssertionId
              /\ errorInfo.root = Fingerprint(privateAssertion[1])

\* C7: with validation enabled KnowledgeAsset.get raises no integrity error
\* for retrieved public statements that are the ones fingerprinted at
\* publish time: the recomputed root and the resolved fingerprint are equal
C7_NoFalseRejection ==
    (/\ entry = "KnowledgeAsset.get"
     /\ validateArg
     /\ publicAssertion # None
     /\ RegistryEntry(publicAssertion[1]) = HexToBytes(publicAssertionId))
    => /\ outcome \notin IntegrityError
       /\ Fingerprint(publicAssertion[1]) = publicAssertionId

\* ---------------------------------------------------------------- poller
\* the first k-1 responses are non-terminal
NonTerminalBefore(k) ==
    /\ Len(statuses) >= k - 1
    /\ \A j \in 1..(k - 1) : NonTerminal(statuses[j])

\* C8: if the operation reports a non-terminal status on requests 1..k-1
\* and COMPLETED on request k, k <= max_retries, the k-th request is made
\* and get_operation_result returns its response after exactly k status
\* requests and k-1 sleeps
C8_PollSuccess ==
    \A k \in 1..MaxRetries :
        /\ (NonTerminalBefore(k) /\ Len(statuses) = k - 1) => pollPc = "polling"
        /\ (NonTerminalBefore(k) /\ Len(statuses) >= k /\ statuses[k] = "COMPLETED")
           => /\ pollPc = "returned"
              /\ pollResult = Some(Response("COMPLETED", k, EmptyData))
              /\ attempts = k
              /\ Len(statuses) = k
              /\ Len(slept) = k - 1
              /\ pollError = NoError

\* COMPLETED on the last request the budget allows
C8_Witness ==
    /\ pollPc = "returned"
    /\ attempts = MaxRetries
    /\ statuses[MaxRetries] = "COMPLETED"
    /\ NonTerminalBefore(MaxRetries)
    /\ Len(slept) = MaxRetries - 1

\* C9 (safety part): at most max_retries status requests are made, and if
\* the first max_retries responses are non-terminal NodeRequestError is
\* raised after exactly max_retries requests
C9_Bounded ==
    /\ attempts <= MaxRetries
    /\ Len(statuses) = attempts
    /\ (NonTerminalBefore(MaxRetries + 1))
       => /\ pollPc = "raised"
          /\ pollError.type = "NodeRequestError"
          /\ attempts = MaxRetries
          /\ pollResult = None

C10_PollFailure ==
    \A k \in 1..MaxRetries :
        (NonTerminalBefore(k) /\ Len(statuses) >= k /\ statuses[k] = "FAILED")
        => /\ pollPc = "raised"
           /\ pollError = [type |-> "OperationFailed",
                           errorType |-> FailedData.errorType,
                           errorMessage |-> FailedData.errorMessage]
           /\ attempts = k
           /\ Len(statuses) = k
           /\ Len(slept) = k - 1
           /\ pollResult = None

\* [PENDING, FAILED]
C10_Witness ==
    /\ statuses = <<"PENDING", "FAILED">>
    /\ pollPc = "raised"
    /\ pollError.type = "OperationFailed"
    /\ Len(slept) = 1

\* ------------------------------------------------------- status strings
\* C11: every status string other than COMPLETED and FAILED, a substatus of
\* one kind of operation and a string no enumeration knows included, is
\* validated as not finished: the poller sleeps and asks again (while
\* iterations are left), and never returns, fails or raises another error
C11_OtherStatusNotFinished ==
    \A k \in 1..Len(statuses) :
        statuses[k] \notin {"COMPLETED", "FAILED"} =>
            /\ validate_operation_status(Response(statuses[k], k, EmptyData))
                 = "OperationNotFinished"
            /\ Len(slept) >= k
            /\ k < MaxRetries => (Len(statuses) > k \/ pollPc = "polling")
            /\ k = Len(statuses) =>
                  /\ pollPc # "returned"
                  /\ pollResult = None
                  /\ pollError.type \in {"none", "NodeRequestError"}
                  /\ pollError.type = "NodeRequestError" => k = MaxRetries

\* an unknown status and a publish substatus were polled through
C11_Witness ==
    /\ statuses = <<"FUTURE_STATUS", "PUBLISH_START", "COMPLETED">>
    /\ pollPc = "returned"
    /\ Len(slept) = 2

\* --------------------------------------------------- assembled assertions
\* C12: for content with a private graph format_content returns the
\* canonical private statements and the canonical public statements plus
\* exactly one link statement, whose object is the private fingerprint (n
\* in, n + 1 out); for content without one the public set has no link
\* statement and the private result is empty
C12_AssembledShape ==
    apc \notin {"off", "start"} =>
        LET n == Cardinality(Members(content.public))
            links == LinkTriples(assertions.public)
        IN  /\ content.private # <<>> =>
                /\ assertions.error = "none"
                /\ assertions.private = normalize_dataset(content.private)
                /\ Len(assertions.private) = Cardinality(Members(content.private))
                /\ Members(assertions.public) =
                     Members(content.public)
                     \cup {LinkStatement(Fingerprint(assertions.private))}
                /\ Len(assertions.public) = n + 1
                /\ Len(links) = 1
                /\ QuotedGroup(links[1]) = Fingerprint(assertions.private)
            /\ content.private = <<>> =>
                /\ links = <<>>
                /\ assertions.private = <<>>
                /\ content.public # <<>> =>
                     /\ assertions.error = "none"
                     /\ assertions.public = normalize_dataset(content.public)
                     /\ Len(assertions.public) = n

\* 3 public and 2 private statements give 4 and 2
C12_Witness ==
    /\ apc = "formatted"
    /\ Cardinality(Members(content.public)) = 3
    /\ Cardinality(Members(content.private)) = 2
    /\ Len(assertions.public) = 4
    /\ Len(assertions.private) = 2

\* C13: for a fixed public graph, two private graphs whose canonical
\* statement sets differ yield different public fingerprints
C13_PrivateTamperDetectable ==
    (apc = "done"
     /\ normalize_dataset(content.private) # normalize_dataset(otherPrivate))
    => publicIds[1] # publicIds[2]

\* the same three public statements with private graphs of one and of two
\* statements: two fingerprints, and they differ
C13_Witness ==
    /\ apc = "done"
    /\ Len(content.public) = 3
    /\ Len(normalize_dataset(content.private)) = 1
    /\ Len(normalize_dataset(otherPrivate)) = 2
    /\ publicIds[1].error = "none"
    /\ publicIds[2].error = "none"
    /\ publicIds[1].id # publicIds[2].id

\* ------------------------------------------------- equal fingerprints
\* C14 (as stated): two lists fingerprinted in the same mode have the same
\* fingerprint iff they hold identical statements in identical order, in
\* every mode, sort=True included
C14_SameFingerprintIffIdentical ==
    ppc = "done" =>
        (pairRoots[1] = pairRoots[2] <=> pairGiven[1] = pairGiven[2])

\* C14 (amended): two lists fingerprinted in the same mode have the same
\* fingerprint iff they are identical in order when sort is off, and iff
\* they hold the same statements the same number of times (are identical
\* once sorted) when sort is on
C14_SameFingerprintIffSameInMode ==
    ppc = "done" =>
        (pairRoots[1] = pairRoots[2]
         <=> IF pairSort
             THEN ListSort(pairGiven[1]) = ListSort(pairGiven[2])
             ELSE pairGiven[1] = pairGiven[2])

\* two orders of the same two statements, sort on: one fingerprint
C14_Witness ==
    /\ ppc = "done"
    /\ pairSort
    /\ Len(pairGiven[1]) = 2
    /\ pairGiven[1] # pairGiven[2]
    /\ ListSort(pairGiven[1]) = ListSort(pairGiven[2])
    /\ pairRoots[1] = pairRoots[2]

\* C15: a list that differs from a non-empty list L of the same length in
\* exactly one statement has a fingerprint different from L's
C15_OneChangeChangesRoot ==
    (/\ ppc = "done"
     /\ Len(pairGiven[1]) = Len(pairGiven[2])
     /\ Cardinality({i \in 1..Len(pairGiven[1]) :
                        pairGiven[1][i] # pairGiven[2][i]}) = 1)
    => pairRoots[1] # pairRoots[2]

\* the fifth statement of five changed, sort off: its leaf is carried up
\* unchanged through two levels
C15_Witness ==
    /\ ppc = "done"
    /\ ~pairSort
    /\ Len(pairGiven[1]) = 5
    /\ Len(pairGiven[2]) = 5
    /\ SubSeq(pairGiven[1], 1, 4) = SubSeq(pairGiven[2], 1, 4)
    /\ pairGiven[1][5] # pairGiven[2][5]
    /\ pairRoots[1] # pairRoots[2]

\* ------------------------------------------------------ positional proofs
\* C16: in positional mode, for every non-empty list of pairwise distinct
\* leaves every leaf's proof verifies against the tree built from the list
C16_ProofVerifiesPositional ==
    (/\ mpc = "verified"
     /\ ~sortPairs
     /\ \A i, j \in 1..Len(leafList) : leafList[i] = leafList[j] => i = j)
    => verifyOut = "true"

\* ------------------------------------------------- the private repository
\* C17: when get queries the linked private assertion, it queries the
\* current private repository iff the resolved is_state_finalized is true
\* and the historical one iff it is false, whatever the kind of selector
C17_RepositoryByFinality ==
    /\ gpc = "poll_query" =>
          \E i \in 1..Len(submitted) : submitted[i].kind = "query"
    /\ \A i \in 1..Len(submitted) :
          submitted[i].kind = "query" =>
              /\ entry = "KnowledgeAsset.get"
              /\ submitted[i].assertionId = privateAssertionId
              /\ submitted[i].repository \in {"privateCurrent", "privateHistory"}
              /\ submitted[i].repository = "privateCurrent" <=> isStateFinalized
              /\ submitted[i].repository = "privateHistory" <=> ~isStateFinalized

\* the first of two states, selected by index: the historical repository
C17_Witness ==
    /\ stateArg = IntSel(0)
    /\ Len(history) = 2
    /\ ~isStateFinalized
    /\ gpc = "poll_query"
    /\ submitted[Len(submitted)] =
         QueryOperation(privateAssertionId, "privateHistory")

\* ------------------------------------------------------ error context
\* C18: the errors get_operation_result raises, OperationFailed and the
\* error of the exhausted retry budget, carry the id of the operation that
\* was polled
C18_ErrorsCarryOperationId ==
    pollPc = "raised" => ToString(pollOp.id) \in ErrorMessageParts(pollError)

\* ------------------------------------------------------------- purity
\* C19: hash_assertion_with_indexes leaves the statement list it is given,
\* and the construction of a MerkleTree the leaf list it is given,
\* unchanged in content and order, in every mode
C19_InputsUnchanged ==
    [][/\ callerList' = callerList
       /\ mpc = "hashed" => leafList' = leafList]_vars

\* -------------------------------------------------------- absent leaves
\* C20: MerkleTree.proof raises LeafNotInTree and returns no proof whenever
\* the leaf is not among the tree's leaves, with or without the index
\* argument
C20_AbsentLeafRaises ==
    (/\ mpc \in {"proof_raised", "absent_proved"}
     /\ \A i \in 1..Len(leafList) : leafList[i] # proofLeaf)
    => /\ mpc = "proof_raised"
       /\ proofOut = <<>>

\* C21: verifying a hash that is not a leaf of the tree raises LeafNotInTree,
\* with sorted pairs and with positional pairs, whatever the proof
C21_VerifyAbsentRaises ==
    (mpc = "nonleaf_verified" /\ proofLeaf = AbsentLeaf)
        => verifyOut = "LeafNotInTree"

\* C25: with sorted pairs and at least two leaves, a hash the tree verifies
\* under some proof is one of the tree's leaves
C25_VerifiedIsLeaf ==
    (/\ mpc = "nonleaf_verified"
     /\ sortPairs
     /\ Len(leafList) >= 2
     /\ verifyOut = "true")
        => \E i \in 1..Len(leafList) : proofLeaf = leafList[i]

\* ------------------------------------------------------- backoff schedule
RECURSIVE Pow(_, _)
Pow(b, e) == IF e = 0 THEN 1 ELSE b * Pow(b, e - 1)

\* the requests answered so far with a non-terminal status
NonTerminalAttempts == {k \in 1..Len(statuses) : NonTerminal(statuses[k])}

\* C22: one sleep follows every non-terminal attempt, the last one before
\* exhaustion included, none follows a terminal attempt, and the sleep after
\* the j-th non-terminal attempt lasts base_delay * backoff^(j-1):
\* 1, 2, 4, 8, 16 seconds with the defaults
C22_BackoffSchedule ==
    /\ Len(slept) = Cardinality(NonTerminalAttempts)
    /\ \A j \in 1..Len(slept) : slept[j] = BaseDelay * Pow(Backoff, j - 1)
    /\ pollPc = "polling" => delay = BaseDelay * Pow(Backoff, Len(slept))

\* the budget is exhausted after the five sleeps of the default schedule
C22_Witness ==
    /\ pollPc = "raised"
    /\ pollError.type = "NodeRequestError"
    /\ slept = <<1, 2, 4, 8, 16>>

\* a terminal attempt after sleeps: nothing is slept after it
C22_TerminalWitness ==
    /\ pollPc = "returned"
    /\ Len(statuses) = 3
    /\ slept = <<1, 2>>

\* ------------------------------------------------------------------ UALs
\* C23: parse_ual(format_ual(b, a, t)) yields the blockchain lowercase(b),
\* the contract address lowercase(a) and the token id t, for identifiers
\* with and without a colon
C23_UalRoundTrip ==
    upc = "parsed" =>
        ualParsed = Some(Parsed("none", LowerChars(ualArgs.blockchain),
                                LowerChars(ualArgs.contract_address),
                                ualArgs.token_id))

\* ------------------------------------------- resolution under updates
\* what resolving a selector against one registry state gives: the
\* fingerprint and the finality flag, or the selector error
Outcome(raised, fingerprint, finalized) ==
    [raised |-> raised, fingerprint |-> fingerprint, finalized |-> finalized]

AtomicResolution(sel, registry) ==
    LET S == AssertionIdsHex(registry.history)
        state == NormalizedState(sel)
    IN  IF IsLatest(sel) /\ registry.unfinalized # ZeroBytes32
        THEN Outcome(FALSE, ToHex(registry.unfinalized), FALSE)
        ELSE IF IsLatest(sel) \/ IsLatestFinalized(sel)
        THEN Outcome(FALSE, S[Len(S)], TRUE)
        ELSE IF sel.type = "int" /\ 0 <= sel.num /\ sel.num < Len(S)
        THEN Outcome(FALSE, S[sel.num + 1], sel.num = Len(S) - 1)
        ELSE IF IsStr(state) /\ MatchesFingerprint(state)
                /\ InList(state.chars, S)
        THEN Outcome(FALSE, state.chars, state.chars = S[Len(S)])
        ELSE Outcome(TRUE, <<>>, FALSE)

\* what the get has resolved its selector to
Observed ==
    IF outcome = "InvalidStateOption" THEN Outcome(TRUE, <<>>, FALSE)
    ELSE Outcome(FALSE, publicAssertionId, isStateFinalized)

\* C24: when the registry is updated by other parties while get resolves
\* its selector, what get resolves it to is what resolving it against the
\* registry as it was at one instant of the resolution gives
C24_SnapshotConsistent ==
    (ResolutionOver /\ snapshots # {}) =>
        \E registry \in snapshots :
            AtomicResolution(stateArg, registry) = Observed

\* LATEST read an empty slot, a state was proposed before the second read,
\* and the latest finalized state was resolved
C24_Witness ==
    /\ ResolutionOver
    /\ IsLatest(stateArg)
    /\ reads.unfinalized = Some(HASH_ZERO)
    /\ unfinalized # ZeroBytes32
    /\ Cardinality(snapshots) >= 2
    /\ isStateFinalized
    /\ publicAssertionId = ToHex(history[Len(history)])

\* ------------------------------------------------------ create and update
\* the publish operation of the running create was polled to COMPLETED
PublishCompleted ==
    /\ writeOp = "create"
    /\ \E n \in 1..Len(nodeOps) : nodeOps[n].kind = "publish"
    /\ \/ wpc = "publish_poll" /\ pollPc = "returned"
       \/ wpc \in {"store_poll", "done"} /\ "publish" \in writeResult

\* C26: when create has polled its publish operation to COMPLETED, it
\* submits and polls a local-store operation carrying the public (and the
\* private) assertion before it returns, and reports it under localStore
C26_LocalStoreAfterPublish ==
    (PublishCompleted /\ wpc = "done" /\ writeOutcome = "return") =>
        /\ "localStore" \in writeResult
        /\ \E n \in 1..Len(nodeOps) :
              nodeOps[n] = NodeOp("local-store", AssertionsList(assertionsArg))

\* C27: when the transaction of create or update raises ContractLogicError
\* the allowance is what it was before the call: an increase made by the
\* call is taken back, and no decrease is sent when none was made
C27_AllowanceRestored ==
    (wpc = "done" /\ writeOutcome = "ContractLogicError") =>
        /\ allowance = currentAllowance
        /\ sentTxs =
             IF isAllowanceIncreased
             THEN <<AllowanceTx("increaseAllowance", tokenAmount),
                    AllowanceTx("decreaseAllowance", tokenAmount)>>
             ELSE <<>>

\* a failed update that had raised a non-zero allowance
C27_Witness ==
    /\ wpc = "done"
    /\ writeOutcome = "ContractLogicError"
    /\ writeOp = "update"
    /\ isAllowanceIncreased
    /\ currentAllowance = 1
    /\ tokenAmount = 2
    /\ allowance = 1
    /\ Len(sentTxs) = 2

C29_PrivateReturned ==
    (/\ entry = "KnowledgeAsset.get"
     /\ gpc = "done"
     /\ outcome = "return"
     /\ visibility # "PUBLIC"
     /\ publicAssertion # None
     /\ LinkTriples(publicAssertion[1]) # <<>>)
        => /\ result.privateAssertion # None
           /\ result.privateAssertionId = privateAssertionId

\* ----------------------------------------------------------- call_function
\* C30: call_function executes the requested contract function at most
\* twice; the status probe of the recovery is one call that triggers no
\* recovery of its own (no probe of the probe, no re-resolution for it), and
\* the contract is re-resolved through the Hub at most once
C30_BoundedRecovery ==
    /\ executed <= 2
    /\ probes <= 1
    /\ updates <= 1
    /\ \A k \in 2..Len(frames) : frames[k].pc = "try"
====
